---------------------------- MODULE Spec2Model ----------------------------
(***************************************************************************)
(* A model of the AVP TypeScript client (avp-ts): the AVPClient            *)
(* orchestrator with its session table, the MemoryBackend, the FileBackend *)
(* and BackendBase.rotate.                                                 *)
(*                                                                         *)
(* Strings (secret names, workspace ids, base64 text) are sequences of     *)
(* one-character strings.  Dates are milliseconds since the epoch.  An      *)
(* optional value (undefined in the source) is the empty sequence None, a   *)
(* present one the one-element sequence Some(x).                            *)
(***************************************************************************)
EXTENDS Integers, Sequences, FiniteSets, TLC

(***************************************************************************)
(* Bounds of the model.                                                    *)
(***************************************************************************)
\* the clock advances in steps of TickMs, at most MaxTicks times
TickMs == 1000
MaxTicks == 2
\* at most MaxSessions sessions are minted in one behaviour
MaxSessions == 2
\* stores stop once a secret has reached version MaxVersion
MaxVersion == 2
\* the specification of the session table mints at most MaxSessSessions sessions
MaxSessSessions == 1

(***************************************************************************)
(* Program constants.                                                      *)
(***************************************************************************)
DEFAULT_TTL == 3600
maxSessionTtlSeconds == 86400
maxSecretValueLength == 65536
maxNameLength == 255
DEFAULT_LIMIT == 100

None == <<>>
Some(x) == <<x>>
EmptyMap == [x \in {} |-> x]

Put(f, k, v) == [x \in (DOMAIN f) \cup {k} |-> IF x = k THEN v ELSE f[x]]
Del(f, k) == [x \in (DOMAIN f) \ {k} |-> f[x]]
Min(a, b) == IF a < b THEN a ELSE b

(***************************************************************************)
(* Identifiers used as inputs.  "constructor" is a valid secret name and a *)
(* valid workspace id, and it is also a member of Object.prototype.        *)
(***************************************************************************)
NameValue == <<"v", "a", "l", "u", "e">>
NameConstructor == <<"c", "o", "n", "s", "t", "r", "u", "c", "t", "o", "r">>
NameInvalid == <<"1", "k">>
WsDefault == <<"d", "e", "f", "a", "u", "l", "t">>
WsConstructor == NameConstructor
WsInvalid == <<"/", "w">>

(***************************************************************************)
(* Validators (types.ts).                                                  *)
(***************************************************************************)
Lower == {"a", "b", "c", "d", "e", "f", "g", "h", "i", "j", "k", "l", "m",
          "n", "o", "p", "q", "r", "s", "t", "u", "v", "w", "x", "y", "z"}
Upper == {"A", "B", "C", "D", "E", "F", "G", "H", "I", "J", "K", "L", "M",
          "N", "O", "P", "Q", "R", "S", "T", "U", "V", "W", "X", "Y", "Z"}
Digits == {"0", "1", "2", "3", "4", "5", "6", "7", "8", "9"}

\* a name pattern that lets a digit come first
SECRET_NAME_PATTERN_DigitFirst(s) ==
    /\ Len(s) >= 1
    /\ s[1] \in Lower \cup Upper \cup Digits
    /\ Len(s) - 1 <= 254
    /\ \A i \in 2..Len(s) : s[i] \in Lower \cup Upper \cup Digits \cup {"_", ".", "-"}

\* a workspace pattern that lets "/" come first
WORKSPACE_ID_PATTERN_SlashFirst(s) ==
    /\ Len(s) >= 1
    /\ Len(s) - 1 <= 254
    /\ \A i \in 1..Len(s) : s[i] \in Lower \cup Upper \cup Digits \cup {"_", ".", "-", "/"}

\* /^[a-zA-Z][a-zA-Z0-9_.\-]{0,254}$/
SECRET_NAME_PATTERN(s) ==
    /\ Len(s) >= 1
    /\ s[1] \in Lower \cup Upper
    /\ Len(s) - 1 <= 254
    /\ \A i \in 2..Len(s) : s[i] \in Lower \cup Upper \cup Digits \cup {"_", ".", "-"}

\* /^[a-zA-Z0-9][a-zA-Z0-9_.\-/]{0,254}$/
WORKSPACE_ID_PATTERN(s) ==
    /\ Len(s) >= 1
    /\ s[1] \in Lower \cup Upper \cup Digits
    /\ Len(s) - 1 <= 254
    /\ \A i \in 2..Len(s) : s[i] \in Lower \cup Upper \cup Digits \cup {"_", ".", "-", "/"}

validateSecretName(name) ==
    IF Len(name) = 0 \/ Len(name) > maxNameLength THEN FALSE
    ELSE SECRET_NAME_PATTERN(name)

validateWorkspaceId(workspaceId) ==
    IF Len(workspaceId) = 0 \/ Len(workspaceId) > maxNameLength THEN FALSE
    ELSE WORKSPACE_ID_PATTERN(workspaceId)

(***************************************************************************)
(* Conversions of the file backend.                                        *)
(***************************************************************************)
Base64Alphabet ==
    <<"A", "B", "C", "D", "E", "F", "G", "H", "I", "J", "K", "L", "M",
      "N", "O", "P", "Q", "R", "S", "T", "U", "V", "W", "X", "Y", "Z",
      "a", "b", "c", "d", "e", "f", "g", "h", "i", "j", "k", "l", "m",
      "n", "o", "p", "q", "r", "s", "t", "u", "v", "w", "x", "y", "z",
      "0", "1", "2", "3", "4", "5", "6", "7", "8", "9", "+", "/">>

B64Char(i) == Base64Alphabet[i + 1]
B64Index(c) == CHOOSE i \in 0..63 : Base64Alphabet[i + 1] = c

\* Buffer.from(value).toString("base64"): every three bytes give four
\* characters, a last group of one or two bytes is padded with "="
Base64Encode(b) ==
    LET n == Len(b)
        byte(i) == IF i <= n THEN b[i] ELSE 0
    IN [j \in 1..(4 * ((n + 2) \div 3)) |->
          LET g == (j - 1) \div 4
              k == (j - 1) % 4
          IN IF k = 0 THEN B64Char(byte(3 * g + 1) \div 4)
             ELSE IF k = 1 THEN
                 B64Char((byte(3 * g + 1) % 4) * 16 + byte(3 * g + 2) \div 16)
             ELSE IF k = 2 THEN
                 IF 3 * g + 2 > n THEN "="
                 ELSE B64Char((byte(3 * g + 2) % 16) * 4 + byte(3 * g + 3) \div 64)
             ELSE IF 3 * g + 3 > n THEN "="
                  ELSE B64Char(byte(3 * g + 3) % 64)]

\* Buffer.from(text, "base64"): every four characters give three bytes, less
\* one byte for each "=" that ends the text
Base64Decode(s) ==
    LET n == Len(s)
        pad == IF n < 4 THEN 0
               ELSE IF s[n - 1] = "=" THEN 2
               ELSE IF s[n] = "=" THEN 1 ELSE 0
        sextet(j) == IF s[j] = "=" THEN 0 ELSE B64Index(s[j])
    IN [i \in 1..((n \div 4) * 3 - pad) |->
          LET g == (i - 1) \div 3
              k == (i - 1) % 3
          IN IF k = 0 THEN sextet(4 * g + 1) * 4 + sextet(4 * g + 2) \div 16
             ELSE IF k = 1 THEN
                 (sextet(4 * g + 2) % 16) * 16 + sextet(4 * g + 3) \div 4
             ELSE (sextet(4 * g + 3) % 4) * 64 + sextet(4 * g + 4)]

\* Buffer.alloc(32).toString("base64")
ZeroFill == Base64Encode([i \in 1..32 |-> 0])

\* Date.prototype.toISOString: the time-of-day fields <<HH, mm, ss, sss>> of
\* "1970-01-01THH:mm:ss.sssZ" (every date of the model lies in that day).
toISOString(t) ==
    <<t \div 3600000, (t \div 60000) % 60, (t \div 1000) % 60, t % 1000>>

\* new Date(isoText)
ParseDate(iso) == ((iso[1] * 60 + iso[2]) * 60 + iso[3]) * 1000 + iso[4]

\* expiresAt?.toISOString()
OptToISO(d) == IF d = None THEN None ELSE Some(toISOString(d[1]))
\* x ? new Date(x) : undefined
OptParse(x) == IF x = None THEN None ELSE Some(ParseDate(x[1]))

(***************************************************************************)
(* String(end) and parseInt(cursor, 10) of the list cursor.                *)
(***************************************************************************)
DigitChars == <<"0", "1", "2", "3", "4", "5", "6", "7", "8", "9">>
DigitValue(c) == (CHOOSE i \in 1..10 : DigitChars[i] = c) - 1

RECURSIVE String(_)
String(n) ==
    IF n < 10 THEN <<DigitChars[n + 1]>>
    ELSE String(n \div 10) \o <<DigitChars[(n % 10) + 1]>>

\* the longest prefix of decimal digits; NaN (here None) when there is none
RECURSIVE ParseDigits(_, _)
ParseDigits(s, acc) ==
    IF Len(s) = 0 \/ s[1] \notin Digits THEN acc
    ELSE ParseDigits(Tail(s), acc * 10 + DigitValue(s[1]))

parseInt(s) ==
    IF Len(s) = 0 \/ s[1] \notin Digits THEN None ELSE Some(ParseDigits(s, 0))

(***************************************************************************)
(* a.name.localeCompare(b.name) on the ASCII characters of valid names:    *)
(* first by collation rank ignoring case, then lower case before upper.    *)
(***************************************************************************)
CollationOrder ==
    <<"_", "-", ".", "/", "0", "1", "2", "3", "4", "5", "6", "7", "8", "9",
      "a", "b", "c", "d", "e", "f", "g", "h", "i", "j", "k", "l", "m",
      "n", "o", "p", "q", "r", "s", "t", "u", "v", "w", "x", "y", "z">>
UpperSeq ==
    <<"A", "B", "C", "D", "E", "F", "G", "H", "I", "J", "K", "L", "M",
      "N", "O", "P", "Q", "R", "S", "T", "U", "V", "W", "X", "Y", "Z">>
LowerSeq ==
    <<"a", "b", "c", "d", "e", "f", "g", "h", "i", "j", "k", "l", "m",
      "n", "o", "p", "q", "r", "s", "t", "u", "v", "w", "x", "y", "z">>
ToLower(c) ==
    IF c \in Upper THEN LowerSeq[CHOOSE i \in 1..26 : UpperSeq[i] = c] ELSE c
PrimaryRank(c) == CHOOSE i \in 1..Len(CollationOrder) : CollationOrder[i] = ToLower(c)
CaseRank(c) == IF c \in Upper THEN 1 ELSE 0

RECURSIVE CompareBy(_, _, _)
\* level 1: primary ranks; level 2: case
CompareBy(a, b, level) ==
    IF Len(a) = 0 /\ Len(b) = 0 THEN 0
    ELSE IF Len(a) = 0 THEN -1
    ELSE IF Len(b) = 0 THEN 1
    ELSE LET ra == IF level = 1 THEN PrimaryRank(a[1]) ELSE CaseRank(a[1])
             rb == IF level = 1 THEN PrimaryRank(b[1]) ELSE CaseRank(b[1])
         IN IF ra < rb THEN -1
            ELSE IF ra > rb THEN 1
            ELSE CompareBy(Tail(a), Tail(b), level)

localeCompare(a, b) ==
    IF CompareBy(a, b, 1) # 0 THEN CompareBy(a, b, 1) ELSE CompareBy(a, b, 2)

\* secrets.sort((a, b) => a.name.localeCompare(b.name)) over a set of names
RECURSIVE SortNames(_)
SortNames(S) ==
    IF S = {} THEN <<>>
    ELSE LET m == CHOOSE x \in S : \A y \in S : localeCompare(x, y) <= 0
         IN <<m>> \o SortNames(S \ {m})


(***************************************************************************)
(* State.                                                                  *)
(***************************************************************************)
VARIABLES
    backendType,  \* "memory" or "file": the backend the client was built on
    now,          \* the clock read by new Date(), in milliseconds
    sessions,     \* AVPClient._sessions: session id -> Session
    nextSid,      \* the number of session ids minted so far, plus one
    secrets,      \* MemoryBackend._secrets: workspace -> name -> StoredSecret
    data,         \* FileBackend._data.workspaces (own properties only)
    objectProps,  \* properties the process has set on the built-in Object function
    vaultFile,    \* the content of the vault file, None while it does not exist
    pending,      \* rotate calls suspended at the await between getMetadata and store
    last          \* the last call made and what it returned or threw

vars == <<backendType, now, sessions, nextSid, secrets, data, objectProps,
          vaultFile, pending, last>>

\* the backend's state, passed to and returned by the backend's methods
Backend ==
    [type |-> backendType, secrets |-> secrets, data |-> data,
     objectProps |-> objectProps, vaultFile |-> vaultFile]

\* what a backend method leaves behind: the backend after the call, the error
\* thrown ("" when none) and the value returned
Returned(b, res) == [b |-> b, err |-> "", res |-> res]
Thrown(b, kind) == [b |-> b, err |-> kind, res |-> EmptyMap]

(***************************************************************************)
(* MemoryBackend (backends/memory.ts).                                     *)
(***************************************************************************)
\* an expiry test with the comparison turned round
MemExpired_Reversed(metadata, t) ==
    metadata.expiresAt # None /\ t < metadata.expiresAt[1]

\* secret.metadata.expiresAt && new Date() > secret.metadata.expiresAt
MemExpired(metadata, t) ==
    metadata.expiresAt # None /\ t > metadata.expiresAt[1]

\* a store that takes the time of the call as createdAt on every store
MemCreatedAt_Now(ws, name, t) == t

\* createdAt of the record a store writes: now for a new name, kept otherwise
MemCreatedAt(ws, name, t) ==
    IF name \notin DOMAIN ws THEN t ELSE ws[name].metadata.createdAt

\* a store that counts an entry carrying an expiry as absent
MemVersion_SkipsExpiring(ws, name) ==
    IF name \notin DOMAIN ws \/ ws[name].metadata.expiresAt # None
    THEN 1 ELSE ws[name].metadata.version + 1

\* a store that writes version 1 whatever the name holds
MemVersion_Restart(ws, name) == 1

\* version of the record a store writes: 1 for a new name, one more otherwise
MemVersion(ws, name) ==
    IF name \notin DOMAIN ws THEN 1 ELSE ws[name].metadata.version + 1

MemStore(b, workspace, name, value, labels, expiresAt, t) ==
    LET S1 == IF workspace \notin DOMAIN b.secrets
              THEN Put(b.secrets, workspace, EmptyMap) ELSE b.secrets
        ws == S1[workspace]
        created == name \notin DOMAIN ws
        version == MemVersion(ws, name)
        createdAt == MemCreatedAt(ws, name, t)
        metadata == [createdAt |-> createdAt, updatedAt |-> t, backend |-> "memory",
                     version |-> version,
                     labels |-> IF labels = None THEN EmptyMap ELSE labels[1],
                     expiresAt |-> expiresAt]
        S2 == [S1 EXCEPT ![workspace] = Put(ws, name, [value |-> value, metadata |-> metadata])]
    IN Returned([b EXCEPT !.secrets = S2], [created |-> created, version |-> version])

\* a version check that lets every version pass
VersionMismatch_Never(version, metadata) == FALSE

\* version !== undefined && version !== secret.metadata.version
VersionMismatch(version, metadata) ==
    version # None /\ version[1] # metadata.version

MemRetrieve(b, workspace, name, version, t) ==
    IF workspace \notin DOMAIN b.secrets THEN Thrown(b, "SecretNotFound")
    ELSE LET ws == b.secrets[workspace]
         IN IF name \notin DOMAIN ws THEN Thrown(b, "SecretNotFound")
            ELSE IF MemExpired(ws[name].metadata, t) THEN
                Thrown([b EXCEPT !.secrets[workspace] = Del(ws, name)], "SecretNotFound")
            ELSE IF VersionMismatch(version, ws[name].metadata) THEN
                Thrown(b, "SecretNotFound")
            ELSE Returned(b, [value |-> ws[name].value,
                              version |-> ws[name].metadata.version])

MemDelete(b, workspace, name) ==
    IF workspace \notin DOMAIN b.secrets THEN Returned(b, FALSE)
    ELSE LET ws == b.secrets[workspace]
         IN IF name \notin DOMAIN ws THEN Returned(b, FALSE)
            ELSE Returned([b EXCEPT !.secrets[workspace] = Del(ws, name)], TRUE)

\* a listing that removes the expired entries it skips
MemListSecrets_Evicts(b, workspace, filterLabels, cursor, limit, t) ==
    IF workspace \notin DOMAIN b.secrets THEN
        Returned(b, [secrets |-> <<>>, cursor |-> None])
    ELSE LET ws == b.secrets[workspace]
             live == {n \in DOMAIN ws : ~MemExpired(ws[n].metadata, t)}
         IN Returned([b EXCEPT !.secrets[workspace] = [n \in live |-> ws[n]]],
                     [secrets |-> <<>>, cursor |-> None])

\* a filter that one matching key satisfies
LabelsMatch_AnyKey(labels, filterLabels) ==
    filterLabels = None \/
    \E k \in DOMAIN filterLabels[1] :
        k \in DOMAIN labels /\ labels[k] = filterLabels[1][k]

\* Object.entries(filterLabels).every(([k, v]) => labels[k] === v)
LabelsMatch(labels, filterLabels) ==
    filterLabels = None \/
    \A k \in DOMAIN filterLabels[1] :
        k \in DOMAIN labels /\ labels[k] = filterLabels[1][k]

\* a pagination that hands out a cursor when the page ends the list
Paginate_CursorAtEnd(sorted, cursor, limit) ==
    LET parsed == IF cursor = None \/ Len(cursor[1]) = 0 THEN None ELSE parseInt(cursor[1])
        start == IF parsed = None THEN 0 ELSE parsed[1]
        end == start + limit
        page == SubSeq(sorted, start + 1, Min(end, Len(sorted)))
        nextCursor == IF end <= Len(sorted) THEN Some(String(end)) ELSE None
    IN [secrets |-> page, cursor |-> nextCursor]

\* a pagination that starts every page at the head of the list
Paginate_FromHead(sorted, cursor, limit) ==
    [secrets |-> SubSeq(sorted, 1, Min(limit, Len(sorted))),
     cursor |-> IF limit < Len(sorted) THEN Some(String(limit)) ELSE None]

\* the pagination both backends share: sorted is the filtered list in name order
Paginate(sorted, cursor, limit) ==
    LET parsed == IF cursor = None \/ Len(cursor[1]) = 0 THEN None ELSE parseInt(cursor[1])
        start == IF parsed = None THEN 0 ELSE parsed[1]
        end == start + limit
        page == SubSeq(sorted, start + 1, Min(end, Len(sorted)))
        nextCursor == IF end < Len(sorted) THEN Some(String(end)) ELSE None
    IN [secrets |-> page, cursor |-> nextCursor]

\* a list element that carries the stored bytes along
MemListItem_WithValue(name, workspace, stored) ==
    [name |-> name, workspace |-> workspace, metadata |-> stored.metadata,
     value |-> stored.value]

\* secrets.push({ name, workspace, metadata: stored.metadata })
MemListItem(name, workspace, stored) ==
    [name |-> name, workspace |-> workspace, metadata |-> stored.metadata]

MemListSecrets(b, workspace, filterLabels, cursor, limit, t) ==
    IF workspace \notin DOMAIN b.secrets THEN
        Returned(b, [secrets |-> <<>>, cursor |-> None])
    ELSE LET ws == b.secrets[workspace]
             kept == {n \in DOMAIN ws : /\ ~MemExpired(ws[n].metadata, t)
                                        /\ LabelsMatch(ws[n].metadata.labels, filterLabels)}
             names == SortNames(kept)
             sorted == [i \in 1..Len(names) |-> MemListItem(names[i], workspace, ws[names[i]])]
         IN Returned(b, Paginate(sorted, cursor, limit))

MemGetMetadata(b, workspace, name, t) ==
    IF workspace \notin DOMAIN b.secrets THEN Thrown(b, "SecretNotFound")
    ELSE LET ws == b.secrets[workspace]
         IN IF name \notin DOMAIN ws THEN Thrown(b, "SecretNotFound")
            ELSE IF MemExpired(ws[name].metadata, t) THEN
                Thrown([b EXCEPT !.secrets[workspace] = Del(ws, name)], "SecretNotFound")
            ELSE Returned(b, ws[name].metadata)

(***************************************************************************)
(* FileBackend (backends/file.ts).                                         *)
(*                                                                         *)
(* _data.workspaces and each workspace are plain JavaScript objects, read   *)
(* with obj[key]: the read follows the prototype chain.  A key that is not *)
(* an own property and names a member of Object.prototype yields that      *)
(* member: {}["constructor"] is the built-in Object function, whatever the *)
(* vault holds.  Writes (obj[key] = v, delete obj[key]) act on own         *)
(* properties of the object they are applied to.                           *)
(***************************************************************************)
\* the members of Object.prototype among the identifiers of the model
ObjectPrototypeMembers == {NameConstructor}
\* the members of Function.prototype among them (Object.constructor is Function)
FunctionPrototypeMembers == {NameConstructor}

Undefined == [kind |-> "undefined"]
\* what this._data.workspaces[workspace] evaluates to
GetWorkspace(b, workspace) ==
    IF workspace \in DOMAIN b.data THEN [kind |-> "plain", id |-> workspace]
    ELSE IF workspace \in ObjectPrototypeMembers THEN [kind |-> "function", fn |-> "Object"]
    ELSE Undefined

\* what ws[name] evaluates to: a stored record, the string a delete left on the
\* Object function, an inherited built-in function, or undefined
GetProp(b, ws, name) ==
    IF ws.kind = "plain" THEN
        IF name \in DOMAIN b.data[ws.id] THEN [kind |-> "secret", rec |-> b.data[ws.id][name]]
        ELSE IF name \in ObjectPrototypeMembers THEN [kind |-> "function", fn |-> "Object"]
        ELSE Undefined
    ELSE
        IF name \in DOMAIN b.objectProps THEN b.objectProps[name]
        ELSE IF name \in FunctionPrototypeMembers THEN [kind |-> "function", fn |-> "Function"]
        ELSE Undefined

\* ws[name] = rec
SetProp(b, ws, name, rec) ==
    IF ws.kind = "plain" THEN [b EXCEPT !.data[ws.id] = Put(@, name, rec)]
    ELSE [b EXCEPT !.objectProps = Put(@, name, [kind |-> "secret", rec |-> rec])]

\* delete ws[name]
DeleteProp(b, ws, name) ==
    IF ws.kind = "plain" THEN [b EXCEPT !.data[ws.id] = Del(@, name)]
    ELSE [b EXCEPT !.objectProps = Del(@, name)]

\* Object.entries(ws): the own enumerable properties
OwnEntries(b, ws) ==
    IF ws.kind = "plain" THEN
        [n \in DOMAIN b.data[ws.id] |-> [kind |-> "secret", rec |-> b.data[ws.id][n]]]
    ELSE b.objectProps

\* scryptSync(password, salt, 32): the key is a function of the password
Key(password) == <<"scrypt", password>>

\* the password the vault of the model is opened with
VaultPassword == "pw"

\* JSON.stringify(this._data): own properties only; a property whose value is
\* undefined (expiresAt of a secret that never expires) is left out
StringifySecret(rec) ==
    [value |-> rec.value,
     metadata |->
        IF rec.metadata.expiresAt = None THEN
            [createdAt |-> rec.metadata.createdAt, updatedAt |-> rec.metadata.updatedAt,
             backend |-> rec.metadata.backend, version |-> rec.metadata.version,
             labels |-> rec.metadata.labels]
        ELSE
            [createdAt |-> rec.metadata.createdAt, updatedAt |-> rec.metadata.updatedAt,
             backend |-> rec.metadata.backend, version |-> rec.metadata.version,
             labels |-> rec.metadata.labels, expiresAt |-> rec.metadata.expiresAt[1]]]

Stringify(workspaces) ==
    [version |-> 1,
     workspaces |-> [w \in DOMAIN workspaces |->
                       [n \in DOMAIN workspaces[w] |-> StringifySecret(workspaces[w][n])]]]

\* JSON.parse(text).workspaces: a property the text lacks reads as undefined
ParseSecret(json) ==
    [value |-> json.value,
     metadata |->
        [createdAt |-> json.metadata.createdAt, updatedAt |-> json.metadata.updatedAt,
         backend |-> json.metadata.backend, version |-> json.metadata.version,
         labels |-> json.metadata.labels,
         expiresAt |-> IF "expiresAt" \in DOMAIN json.metadata
                       THEN Some(json.metadata.expiresAt) ELSE None]]

Parse(text) ==
    [w \in DOMAIN text.workspaces |->
       [n \in DOMAIN text.workspaces[w] |-> ParseSecret(text.workspaces[w][n])]]

\* _encrypt: AES-256-GCM under the key; the envelope opens under that key only
Encrypt(key, text) == [key |-> key, text |-> text]

\* _decrypt: the text, or nothing when the authentication tag does not verify
Decrypt(key, envelope) == IF envelope.key = key THEN Some(envelope.text) ELSE None

\* what the vault path holds: an envelope that was written to it, and how much
\* of the envelope is there: "whole", "altered" (some byte differs), "partial"
\* (a proper, non-empty prefix) or "nothing" (a file of length zero)
FileOf(envelope, held) == [envelope |-> envelope, held |-> held]

\* _save: JSON.stringify(this._data), encrypted and written over the vault file
Save(b) ==
    [b EXCEPT !.vaultFile =
        Some(FileOf(Encrypt(Key(VaultPassword), Stringify(b.data)), "whole"))]

\* _load: an empty vault when there is no file or the file has length zero,
\* else the decrypted and parsed file; err is set when decryption fails, as it
\* does under another key or when bytes of the envelope differ or are missing
Load(file, password) ==
    IF file = None THEN [err |-> "", workspaces |-> EmptyMap]
    ELSE IF file[1].held = "nothing" THEN [err |-> "", workspaces |-> EmptyMap]
    ELSE LET text == IF file[1].held = "whole"
                     THEN Decrypt(Key(password), file[1].envelope) ELSE None
         IN IF text = None THEN [err |-> "EncryptionError", workspaces |-> EmptyMap]
            ELSE [err |-> "", workspaces |-> Parse(text[1])]

\* stored.metadata.expiresAt is set and new Date() > new Date(expiresAt)
FileExpired(metadata, t) ==
    metadata.expiresAt # None /\ t > ParseDate(metadata.expiresAt[1])

\* the SecretMetadata the file backend builds from a stored record
FileMetadata(metadata) ==
    [createdAt |-> ParseDate(metadata.createdAt), updatedAt |-> ParseDate(metadata.updatedAt),
     backend |-> "file", version |-> metadata.version, labels |-> metadata.labels,
     expiresAt |-> OptParse(metadata.expiresAt)]

\* a store that writes the version it found, without counting itself
FileVersion_Uncounted(existing) ==
    IF existing.kind = "undefined" THEN 1 ELSE existing.rec.metadata.version

\* version of the record a store writes: 1 for a new name, one more otherwise
FileVersion(existing) ==
    IF existing.kind = "undefined" THEN 1 ELSE existing.rec.metadata.version + 1

FileStore(b, workspace, name, value, labels, expiresAt, t) ==
    LET b1 == IF GetWorkspace(b, workspace).kind = "undefined"
              THEN [b EXCEPT !.data = Put(@, workspace, EmptyMap)] ELSE b
        ws == GetWorkspace(b1, workspace)
        existing == GetProp(b1, ws, name)
        created == existing.kind = "undefined"
    IN IF ~created /\ existing.kind # "secret" THEN
           \* existing.metadata is undefined: reading .version throws
           Thrown(b1, "TypeError")
       ELSE LET version == FileVersion(existing)
                createdAt == IF created THEN toISOString(t)
                             ELSE existing.rec.metadata.createdAt
                rec == [value |-> Base64Encode(value),
                        metadata |-> [createdAt |-> createdAt, updatedAt |-> toISOString(t),
                                      backend |-> "file", version |-> version,
                                      labels |-> IF labels = None THEN EmptyMap ELSE labels[1],
                                      expiresAt |-> OptToISO(expiresAt)]]
            IN Returned(Save(SetProp(b1, ws, name, rec)),
                        [created |-> created, version |-> version])

FileRetrieve(b, workspace, name, version, t) ==
    LET ws == GetWorkspace(b, workspace)
        secret == IF ws.kind = "undefined" THEN Undefined ELSE GetProp(b, ws, name)
    IN IF secret.kind = "undefined" THEN Thrown(b, "SecretNotFound")
       ELSE IF secret.kind # "secret" THEN Thrown(b, "TypeError")
       ELSE IF FileExpired(secret.rec.metadata, t) THEN
           Thrown(Save(DeleteProp(b, ws, name)), "SecretNotFound")
       ELSE IF VersionMismatch(version, secret.rec.metadata) THEN
           Thrown(b, "SecretNotFound")
       ELSE Returned(b, [value |-> Base64Decode(secret.rec.value),
                         version |-> secret.rec.metadata.version])

FileDelete(b, workspace, name) ==
    LET ws == GetWorkspace(b, workspace)
        found == IF ws.kind = "undefined" THEN Undefined ELSE GetProp(b, ws, name)
    IN IF found.kind = "undefined" THEN Returned(b, FALSE)
       ELSE IF found.kind = "string" THEN
           \* ws[name].value = ... on a string primitive throws in strict code
           Thrown(b, "TypeError")
       ELSE LET b1 == IF found.kind = "function" /\ found.fn = "Object"
                      THEN \* the overwrite lands on the Object function itself
                           [b EXCEPT !.objectProps =
                               Put(@, NameValue, [kind |-> "string", str |-> ZeroFill])]
                      ELSE b
            IN Returned(Save(DeleteProp(b1, ws, name)), TRUE)

FileListSecrets(b, workspace, filterLabels, cursor, limit, t) ==
    LET ws == GetWorkspace(b, workspace)
    IN IF ws.kind = "undefined" THEN Returned(b, [secrets |-> <<>>, cursor |-> None])
       ELSE LET entries == OwnEntries(b, ws)
            IN IF \E n \in DOMAIN entries : entries[n].kind # "secret" THEN
                   \* stored.metadata is undefined for a string entry
                   Thrown(b, "TypeError")
               ELSE LET kept == {n \in DOMAIN entries :
                                   /\ ~FileExpired(entries[n].rec.metadata, t)
                                   /\ LabelsMatch(entries[n].rec.metadata.labels, filterLabels)}
                        names == SortNames(kept)
                        sorted == [i \in 1..Len(names) |->
                                     [name |-> names[i], workspace |-> workspace,
                                      metadata |-> FileMetadata(entries[names[i]].rec.metadata)]]
                    IN Returned(b, Paginate(sorted, cursor, limit))

FileGetMetadata(b, workspace, name, t) ==
    LET ws == GetWorkspace(b, workspace)
        stored == IF ws.kind = "undefined" THEN Undefined ELSE GetProp(b, ws, name)
    IN IF stored.kind = "undefined" THEN Thrown(b, "SecretNotFound")
       ELSE IF stored.kind # "secret" THEN Thrown(b, "TypeError")
       ELSE IF FileExpired(stored.rec.metadata, t) THEN
           Thrown(Save(DeleteProp(b, ws, name)), "SecretNotFound")
       ELSE Returned(b, FileMetadata(stored.rec.metadata))

(***************************************************************************)
(* The backend the client holds (this._backend), by its type.              *)
(***************************************************************************)
BackendStore(b, workspace, name, value, labels, expiresAt, t) ==
    IF b.type = "memory" THEN MemStore(b, workspace, name, value, labels, expiresAt, t)
    ELSE FileStore(b, workspace, name, value, labels, expiresAt, t)

BackendRetrieve(b, workspace, name, version, t) ==
    IF b.type = "memory" THEN MemRetrieve(b, workspace, name, version, t)
    ELSE FileRetrieve(b, workspace, name, version, t)

BackendDelete(b, workspace, name) ==
    IF b.type = "memory" THEN MemDelete(b, workspace, name)
    ELSE FileDelete(b, workspace, name)

BackendListSecrets(b, workspace, filterLabels, cursor, limit, t) ==
    IF b.type = "memory" THEN MemListSecrets(b, workspace, filterLabels, cursor, limit, t)
    ELSE FileListSecrets(b, workspace, filterLabels, cursor, limit, t)

BackendGetMetadata(b, workspace, name, t) ==
    IF b.type = "memory" THEN MemGetMetadata(b, workspace, name, t)
    ELSE FileGetMetadata(b, workspace, name, t)

\* BackendBase.rotate up to its first suspension: getMetadata has run
RotateCheck(b, workspace, name, t) == BackendGetMetadata(b, workspace, name, t)

\* a rotate that returns the version it read before its store
RotateStore_StaleVersion(b, workspace, name, newValue, t) ==
    LET r == BackendStore(b, workspace, name, newValue, None, None, t)
    IN IF r.err # "" THEN r ELSE Returned(r.b, r.res.version - 1)

\* a rotate that stores the new value with the labels and expiry the entry had
RotateStore_KeepsMetadata(b, workspace, name, newValue, t) ==
    LET m == BackendGetMetadata(b, workspace, name, t)
        r == IF m.err # "" THEN BackendStore(b, workspace, name, newValue, None, None, t)
             ELSE BackendStore(b, workspace, name, newValue,
                               Some(m.res.labels), m.res.expiresAt, t)
    IN IF r.err # "" THEN r ELSE Returned(r.b, r.res.version)

\* BackendBase.rotate after the suspension: store, and return result.version
RotateStore(b, workspace, name, newValue, t) ==
    LET r == BackendStore(b, workspace, name, newValue, None, None, t)
    IN IF r.err # "" THEN r ELSE Returned(r.b, r.res.version)

\* BackendBase.rotate run without interruption
BackendRotate(b, workspace, name, newValue, t) ==
    LET m == RotateCheck(b, workspace, name, t)
    IN IF m.err # "" THEN m ELSE RotateStore(m.b, workspace, name, newValue, t)

(***************************************************************************)
(* AVPClient (client.ts).                                                  *)
(***************************************************************************)
\* the session id no authenticate call ever mints ("invalid_session"); minted
\* ids are 1, 2, ...
UnknownSid == 0

backendId(type) == IF type = "memory" THEN "memory-0" ELSE "file-0"

\* an expiry test that already fails a session at its expiresAt
isSessionExpired_AtExpiry(session, t) == t >= session.expiresAt

\* new Date() > session.expiresAt
isSessionExpired(session, t) == t > session.expiresAt

\* _validateSession: the table after the call, the error thrown, the session returned
validateSession(table, sessionId, t) ==
    IF sessionId \notin DOMAIN table THEN
        [sessions |-> table, err |-> "SessionNotFound", session |-> EmptyMap]
    ELSE IF isSessionExpired(table[sessionId], t) THEN
        [sessions |-> Del(table, sessionId), err |-> "SessionExpired", session |-> EmptyMap]
    ELSE [sessions |-> table, err |-> "", session |-> table[sessionId]]

\* the record of a call: what was called, with which session and name, what it
\* threw ("" when it returned) and what it returned
Call(op, sid, workspace, name, arg, err, res) ==
    [op |-> op, sid |-> sid, workspace |-> workspace, name |-> name,
     arg |-> arg, err |-> err, res |-> res]

SetBackend(b) ==
    /\ secrets' = b.secrets
    /\ data' = b.data
    /\ objectProps' = b.objectProps
    /\ vaultFile' = b.vaultFile
    /\ UNCHANGED backendType

UnchangedBackend == UNCHANGED <<backendType, secrets, data, objectProps, vaultFile>>

\* a call that failed its session check
SessionFailure(op, sessionId, name, arg, v) ==
    /\ sessions' = v.sessions
    /\ last' = Call(op, Some(sessionId), None, name, arg, v.err, EmptyMap)
    /\ UnchangedBackend
    /\ UNCHANGED <<now, nextSid, pending>>

\* the session echoed by a termination
TerminatedSession(sessionId, workspace, t) ==
    [sessionId |-> sessionId, workspace |-> workspace,
     backend |-> backendId(backendType), agentId |-> "avp-ts",
     createdAt |-> t, expiresAt |-> t, ttlSeconds |-> 0]

\* a ttl taken from the request without the backend's maximum
SessionTtl_Uncapped(requestedTtl) ==
    IF requestedTtl = None THEN DEFAULT_TTL ELSE requestedTtl[1]

\* Math.min(requestedTtl ?? AVPClient.DEFAULT_TTL, limits.maxSessionTtlSeconds)
SessionTtl(requestedTtl) ==
    Min(IF requestedTtl = None THEN DEFAULT_TTL ELSE requestedTtl[1], maxSessionTtlSeconds)

\* the session a non-terminating authenticate mints
NewSession(sessionId, workspace, ttl, t) ==
    [sessionId |-> sessionId, workspace |-> workspace,
     backend |-> backendId(backendType), agentId |-> "avp-ts",
     createdAt |-> t, expiresAt |-> t + ttl * 1000, ttlSeconds |-> ttl]

\* a termination that clears the whole table
TerminateSession_All(table, sessionId) == EmptyMap

\* a termination that leaves the table as it is
TerminateSession_Keeps(table, sessionId) == table

\* this._sessions.delete(sessionId) of a termination
TerminateSession(table, sessionId) == Del(table, sessionId)

\* checks that look at the termination before the workspace
AuthenticateError_TerminateFirst(workspace, authMethod, sessionIdArg) ==
    IF authMethod = "terminate" THEN
        IF sessionIdArg = None THEN "AuthenticationFailed" ELSE ""
    ELSE IF ~validateWorkspaceId(workspace) THEN "InvalidWorkspace"
    ELSE ""

\* checks that let a termination without a session id through
AuthenticateError_NoIdAccepted(workspace, authMethod, sessionIdArg) ==
    IF ~validateWorkspaceId(workspace) THEN "InvalidWorkspace" ELSE ""

\* what authenticate throws before it changes anything ("" when nothing): the
\* workspace is validated first, then a termination must carry a session id
AuthenticateError(workspace, authMethod, sessionIdArg) ==
    IF ~validateWorkspaceId(workspace) THEN "InvalidWorkspace"
    ELSE IF authMethod = "terminate" /\ sessionIdArg = None THEN "AuthenticationFailed"
    ELSE ""

\* authenticate(options)
Authenticate(workspace, authMethod, sessionIdArg, requestedTtl) ==
    \E arg \in {[workspace |-> workspace, authMethod |-> authMethod,
                 requestedTtl |-> requestedTtl]} :
    /\ UnchangedBackend
    /\ UNCHANGED <<now, pending>>
    /\ \E err \in {AuthenticateError(workspace, authMethod, sessionIdArg)} :
       IF err # "" THEN
           /\ last' = Call("authenticate", sessionIdArg, None, None, arg, err, EmptyMap)
           /\ UNCHANGED <<sessions, nextSid>>
       ELSE IF authMethod = "terminate" /\ sessionIdArg # None THEN
           /\ sessions' = TerminateSession(sessions, sessionIdArg[1])
           /\ last' = Call("authenticate", sessionIdArg, None, None, arg, "",
                           TerminatedSession(sessionIdArg[1], workspace, now))
           /\ UNCHANGED nextSid
       ELSE
           \E session \in {NewSession(nextSid, workspace, SessionTtl(requestedTtl), now)} :
              /\ nextSid <= MaxSessions
              /\ sessions' = Put(sessions, session.sessionId, session)
              /\ nextSid' = nextSid + 1
              /\ last' = Call("authenticate", sessionIdArg, None, None, arg, "", session)

\* the size of the value looked at before the name
StoreValidationError_SizeFirst(name, value) ==
    IF Len(value) > maxSecretValueLength THEN "ValueTooLarge"
    ELSE IF ~validateSecretName(name) THEN "InvalidName"
    ELSE ""

\* store's checks of its arguments: the name, then the size of the value
StoreValidationError(name, value) ==
    IF ~validateSecretName(name) THEN "InvalidName"
    ELSE IF Len(value) > maxSecretValueLength THEN "ValueTooLarge"
    ELSE ""

\* store(sessionId, name, value, options)
ClientStore(sessionId, name, value, labels, expiresAt) ==
    \E v \in {validateSession(sessions, sessionId, now)},
       arg \in {[value |-> value, labels |-> labels, expiresAt |-> expiresAt]},
       invalid \in {StoreValidationError(name, value)} :
       IF v.err # "" THEN SessionFailure("store", sessionId, name, arg, v)
       ELSE IF invalid # "" THEN
           /\ last' = Call("store", Some(sessionId), Some(v.session.workspace), name, arg,
                           invalid, EmptyMap)
           /\ UnchangedBackend
           /\ UNCHANGED <<now, sessions, nextSid, pending>>
       ELSE \E r \in {BackendStore(Backend, v.session.workspace, name, value,
                                   labels, expiresAt, now)} :
               /\ r.err = "" => r.res.version <= MaxVersion
               /\ SetBackend(r.b)
               /\ last' = Call("store", Some(sessionId), Some(v.session.workspace), name, arg,
                               r.err,
                               IF r.err # "" THEN EmptyMap
                               ELSE [name |-> name, backend |-> backendId(backendType),
                                     created |-> r.res.created, version |-> r.res.version])
               /\ UNCHANGED <<now, sessions, nextSid, pending>>

\* retrieve(sessionId, name, version)
ClientRetrieve(sessionId, name, version) ==
    \E v \in {validateSession(sessions, sessionId, now)}, arg \in {[version |-> version]} :
       IF v.err # "" THEN SessionFailure("retrieve", sessionId, name, arg, v)
       ELSE \E r \in {BackendRetrieve(Backend, v.session.workspace, name, version, now)} :
               /\ SetBackend(r.b)
               /\ last' = Call("retrieve", Some(sessionId), Some(v.session.workspace), name,
                               arg, r.err,
                               IF r.err # "" THEN EmptyMap
                               ELSE [name |-> name, value |-> r.res.value, encoding |-> "utf8",
                                     backend |-> backendId(backendType),
                                     version |-> r.res.version])
               /\ UNCHANGED <<now, sessions, nextSid, pending>>

\* delete(sessionId, name)
ClientDelete(sessionId, name) ==
    \E v \in {validateSession(sessions, sessionId, now)} :
       IF v.err # "" THEN SessionFailure("delete", sessionId, name, EmptyMap, v)
       ELSE \E r \in {BackendDelete(Backend, v.session.workspace, name)} :
               /\ SetBackend(r.b)
               /\ last' = Call("delete", Some(sessionId), Some(v.session.workspace), name,
                               EmptyMap, r.err,
                               IF r.err # "" THEN EmptyMap
                               ELSE [name |-> name, deleted |-> r.res])
               /\ UNCHANGED <<now, sessions, nextSid, pending>>
\* a default that also replaces a limit of 0 (options.limit || 100)
LimitOrDefault_ZeroToo(limit) ==
    IF limit = None \/ limit[1] = 0 THEN DEFAULT_LIMIT ELSE limit[1]

\* options.limit ?? 100
LimitOrDefault(limit) == IF limit = None THEN DEFAULT_LIMIT ELSE limit[1]

\* listSecrets(sessionId, options)
ClientListSecrets(sessionId, filterLabels, cursor, limit) ==
    \E v \in {validateSession(sessions, sessionId, now)},
       arg \in {[filterLabels |-> filterLabels, cursor |-> cursor, limit |-> limit]} :
       IF v.err # "" THEN SessionFailure("listSecrets", sessionId, None, arg, v)
       ELSE \E r \in {BackendListSecrets(Backend, v.session.workspace, filterLabels, cursor,
                          LimitOrDefault(limit), now)} :
               /\ SetBackend(r.b)
               /\ last' = Call("listSecrets", Some(sessionId), Some(v.session.workspace), None,
                               arg, r.err,
                               IF r.err # "" THEN EmptyMap
                               ELSE [secrets |-> r.res.secrets, cursor |-> r.res.cursor,
                                     hasMore |-> r.res.cursor # None])
               /\ UNCHANGED <<now, sessions, nextSid, pending>>

\* what rotate returns once backend.rotate has returned version
RotateResponse(name, version, t) ==
    [name |-> name, backend |-> backendId(backendType), version |-> version, rotatedAt |-> t]

\* rotate(sessionId, name, newValue), run to its end without another call in between
ClientRotate(sessionId, name, newValue) ==
    \E v \in {validateSession(sessions, sessionId, now)}, arg \in {[value |-> newValue]} :
       IF v.err # "" THEN SessionFailure("rotate", sessionId, name, arg, v)
       ELSE \E r \in {BackendRotate(Backend, v.session.workspace, name, newValue, now)} :
               /\ r.err = "" => r.res <= MaxVersion
               /\ SetBackend(r.b)
               /\ last' = Call("rotate", Some(sessionId), Some(v.session.workspace), name,
                               arg, r.err,
                               IF r.err # "" THEN EmptyMap
                               ELSE RotateResponse(name, r.res, now))
               /\ UNCHANGED <<now, sessions, nextSid, pending>>

\* rotate up to the await of getMetadata: the session check and getMetadata have
\* run; when neither threw, the call is suspended with its store still to come
ClientRotateBegin(sessionId, name, newValue) ==
    \E v \in {validateSession(sessions, sessionId, now)}, arg \in {[value |-> newValue]} :
       IF v.err # "" THEN SessionFailure("rotate", sessionId, name, arg, v)
       ELSE \E m \in {RotateCheck(Backend, v.session.workspace, name, now)},
               call \in {[sid |-> sessionId, workspace |-> v.session.workspace,
                          name |-> name, newValue |-> newValue]} :
               /\ SetBackend(m.b)
               /\ UNCHANGED <<now, sessions, nextSid>>
               /\ IF m.err # "" THEN
                      /\ last' = Call("rotate", Some(sessionId), Some(v.session.workspace),
                                      name, arg, m.err, EmptyMap)
                      /\ UNCHANGED pending
                  ELSE
                      /\ call \notin pending
                      /\ pending' = pending \cup {call}
                      /\ last' = Call("rotateAwait", Some(sessionId),
                                      Some(v.session.workspace), name, arg, "", EmptyMap)

\* a resumed rotate that checks its session again before it stores
ClientRotateResume_Revalidates(call) ==
    \E v \in {validateSession(sessions, call.sid, now)} :
       /\ call \in pending
       /\ v.err # ""
       /\ pending' = pending \ {call}
       /\ last' = Call("rotate", Some(call.sid), Some(call.workspace), call.name,
                       [value |-> call.newValue], v.err, EmptyMap)
       /\ sessions' = v.sessions
       /\ UnchangedBackend
       /\ UNCHANGED <<now, nextSid>>

\* a suspended rotate resumes: store runs and the call returns
ClientRotateResume(call) ==
    \E r \in {RotateStore(Backend, call.workspace, call.name, call.newValue, now)} :
       /\ call \in pending
       /\ r.err = "" => r.res <= MaxVersion
       /\ SetBackend(r.b)
       /\ pending' = pending \ {call}
       /\ last' = Call("rotate", Some(call.sid), Some(call.workspace), call.name,
                       [value |-> call.newValue], r.err,
                       IF r.err # "" THEN EmptyMap
                       ELSE RotateResponse(call.name, r.res, now))
       /\ UNCHANGED <<now, sessions, nextSid>>

\* getMetadata is a method of the backend; the client has no operation for it.
\* A caller holding the backend calls it with a workspace of its own.
GetMetadata(workspace, name) ==
    \E r \in {BackendGetMetadata(Backend, workspace, name, now)} :
       /\ SetBackend(r.b)
       /\ last' = Call("getMetadata", None, Some(workspace), name, EmptyMap, r.err, r.res)
       /\ UNCHANGED <<now, sessions, nextSid, pending>>

\* backend.close(): FileBackend saves once more, BackendBase does nothing
BackendClose(b) == IF b.type = "file" THEN Returned(Save(b), EmptyMap) ELSE Returned(b, EmptyMap)

\* close(): the backend is closed, then the session table is cleared
ClientClose ==
    \E r \in {BackendClose(Backend)} :
       /\ SetBackend(r.b)
       /\ sessions' = EmptyMap
       /\ last' = Call("close", None, None, None, EmptyMap, r.err, EmptyMap)
       /\ UNCHANGED <<now, nextSid, pending>>

\* new AVPClient(new FileBackend(path, password)) on the path of the vault, in the
\* process that wrote it or in a new process, whose built-in objects are fresh.
\* When _load throws, the constructor throws and no backend comes to exist.
Reopen(newProcess, password) ==
    /\ backendType = "file"
    /\ \E loaded \in {Load(vaultFile, password)},
          arg \in {[newProcess |-> newProcess, password |-> password]} :
          IF loaded.err # "" THEN
              /\ last' = Call("open", None, None, None, arg, loaded.err, EmptyMap)
              /\ UNCHANGED <<data, objectProps, sessions, pending>>
          ELSE
              /\ data' = loaded.workspaces
              /\ objectProps' = IF newProcess THEN EmptyMap ELSE objectProps
              /\ sessions' = EmptyMap
              /\ pending' = {}
              /\ last' = Call("open", None, None, None, arg, "", EmptyMap)
    /\ UNCHANGED <<backendType, now, nextSid, secrets, vaultFile>>

\* something outside the program changes bytes of the vault file ("altered") or
\* cuts it short, to a part of it ("partial") or to length zero ("nothing")
DamageFile(held) ==
    /\ vaultFile # None
    /\ vaultFile[1].held = "whole"
    /\ vaultFile' = Some(FileOf(vaultFile[1].envelope, held))
    /\ last' = Call("damage", None, None, None, [held |-> held], "", EmptyMap)
    /\ UNCHANGED <<backendType, now, sessions, nextSid, secrets, data, objectProps, pending>>

\* time passes
Tick ==
    /\ now < MaxTicks * TickMs
    /\ now' = now + TickMs
    /\ last' = Call("tick", None, None, None, EmptyMap, "", EmptyMap)
    /\ UnchangedBackend
    /\ UNCHANGED <<sessions, nextSid, pending>>

Init ==
    /\ backendType \in {"memory", "file"}
    /\ now = 0
    /\ sessions = EmptyMap
    /\ nextSid = 1
    /\ secrets = EmptyMap
    /\ data = EmptyMap
    /\ objectProps = EmptyMap
    /\ vaultFile = None
    /\ pending = {}
    /\ last = Call("new", None, None, None, EmptyMap, "", EmptyMap)

(***************************************************************************)
(* Inputs.                                                                 *)
(***************************************************************************)
Names == {NameValue, NameConstructor}
Values == {<<115>>, <<0, 255>>}
\* no expiry, or an expiry one tick after the start of the clock
ExpiryChoices == {None, Some(TickMs)}
\* the session ids a caller can hold: those minted so far
Minted == 1..(nextSid - 1)

(***************************************************************************)
(* Spec: one caller after another on the workspace "default"; every call   *)
(* completes before the next begins.                                       *)
(***************************************************************************)
Next ==
    \/ Tick
    \/ nextSid = 1 /\ Authenticate(WsDefault, "none", None, None)
    \/ \E sid \in Minted, n \in Names, e \in ExpiryChoices :
           ClientStore(sid, n, <<115>>, None, e)
    \/ \E sid \in Minted, n \in Names : ClientRetrieve(sid, n, None)
    \/ \E sid \in Minted, n \in Names : ClientDelete(sid, n)
    \/ \E sid \in Minted : ClientListSecrets(sid, None, None, None)
    \/ \E sid \in Minted, n \in Names : ClientRotate(sid, n, <<0, 255>>)
    \/ \E n \in Names : GetMetadata(WsDefault, n)

Spec == Init /\ [][Next]_vars

(***************************************************************************)
(* Views of the state used by the properties.                              *)
(***************************************************************************)
\* the backend holds an entry under (workspace, name), expired or not
HasSecret(b, workspace, name) ==
    IF b.type = "memory" THEN
        workspace \in DOMAIN b.secrets /\ name \in DOMAIN b.secrets[workspace]
    ELSE LET ws == GetWorkspace(b, workspace)
         IN ws.kind # "undefined" /\ GetProp(b, ws, name).kind = "secret"

\* the entry held under (workspace, name): its bytes and its metadata as dates
StoredSecret(b, workspace, name) ==
    IF b.type = "memory" THEN
        LET e == b.secrets[workspace][name]
        IN [value |-> e.value, version |-> e.metadata.version,
            createdAt |-> e.metadata.createdAt, updatedAt |-> e.metadata.updatedAt,
            labels |-> e.metadata.labels, expiresAt |-> e.metadata.expiresAt]
    ELSE LET e == GetProp(b, GetWorkspace(b, workspace), name).rec
         IN [value |-> Base64Decode(e.value), version |-> e.metadata.version,
             createdAt |-> ParseDate(e.metadata.createdAt),
             updatedAt |-> ParseDate(e.metadata.updatedAt),
             labels |-> e.metadata.labels, expiresAt |-> OptParse(e.metadata.expiresAt)]

\* the step is a call of op that passed the client's session check
BackendCall(op) == last'.op = op /\ last'.workspace # None

\* the names of a page of listSecrets
ListedNames(page) == {page[i].name : i \in 1..Len(page)}

(***************************************************************************)
(* C1: in both backends, a store of a valid name that is absent from the   *)
(* workspace, with a valid value and no expiry in the past, returns        *)
(* created = true and version 1, and a retrieve made right after it        *)
(* returns exactly the stored bytes with version 1.                        *)
(***************************************************************************)
C1_FirstStoreThenRetrieve ==
    [][(/\ BackendCall("store")
        /\ validateSecretName(last'.name)
        /\ Len(last'.arg.value) <= maxSecretValueLength
        /\ ~HasSecret(Backend, last'.workspace[1], last'.name))
       => /\ last'.err = ""
          /\ last'.res.created
          /\ last'.res.version = 1
          /\ (last'.arg.expiresAt = None \/ last'.arg.expiresAt[1] >= now)
             => LET r == BackendRetrieve(Backend', last'.workspace[1], last'.name, None, now')
                IN r.err = "" /\ r.res.value = last'.arg.value /\ r.res.version = 1]_vars

C3_DeleteReportsExistence ==
    [][/\ BackendCall("delete")
          => /\ last'.err = ""
             /\ last'.res.deleted = HasSecret(Backend, last'.workspace[1], last'.name)
             /\ last'.res.deleted
                => /\ BackendRetrieve(Backend', last'.workspace[1], last'.name, None, now').err
                        = "SecretNotFound"
                   /\ BackendGetMetadata(Backend', last'.workspace[1], last'.name, now').err
                        = "SecretNotFound"
                   /\ LET again == BackendDelete(Backend', last'.workspace[1], last'.name)
                      IN again.err = "" /\ again.res = FALSE
       \* an absent name stays absent until a store
       /\ \A n \in Names :
             (~HasSecret(Backend, WsDefault, n) /\ HasSecret(Backend', WsDefault, n))
                => last'.op = "store"]_vars

(***************************************************************************)
(* C4: no retrieve, listSecrets or getMetadata returns a secret whose      *)
(* expiresAt is earlier than the current time: retrieve and getMetadata    *)
(* fail with SecretNotFound for it and listSecrets omits it, also when the *)
(* secret was stored with an expiresAt already in the past.                *)
(***************************************************************************)
\* the entry under (workspace, name) has an expiresAt earlier than t
PastExpiry(b, workspace, name, t) ==
    /\ HasSecret(b, workspace, name)
    /\ StoredSecret(b, workspace, name).expiresAt # None
    /\ StoredSecret(b, workspace, name).expiresAt[1] < t

C4_ExpiredNeverReturned ==
    [][/\ (BackendCall("retrieve") \/ last'.op = "getMetadata")
          => /\ PastExpiry(Backend, last'.workspace[1], last'.name, now)
                => last'.err = "SecretNotFound"
             /\ (last'.err = "" /\ last'.op = "getMetadata")
                => (last'.res.expiresAt = None \/ last'.res.expiresAt[1] >= now)
       /\ (BackendCall("listSecrets") /\ last'.err = "")
          => /\ \A n \in Names :
                   PastExpiry(Backend, last'.workspace[1], n, now)
                      => n \notin ListedNames(last'.res.secrets)
             /\ \A i \in 1..Len(last'.res.secrets) :
                   LET m == last'.res.secrets[i].metadata
                   IN m.expiresAt = None \/ m.expiresAt[1] >= now]_vars

\* listSecrets has just left out an entry whose expiresAt was already in the
\* past when it was stored
C4_Witness ==
    /\ last.op = "listSecrets" /\ last.err = ""
    /\ \E n \in Names :
          /\ PastExpiry(Backend, last.workspace[1], n, now)
          /\ StoredSecret(Backend, last.workspace[1], n).expiresAt[1]
                < StoredSecret(Backend, last.workspace[1], n).updatedAt
          /\ n \notin ListedNames(last.res.secrets)

(***************************************************************************)
(* C6: rotate on a (workspace, name) that holds no secret fails with       *)
(* SecretNotFound and writes nothing: the backend is the same after the    *)
(* call as before it and holds no secret of that name.                     *)
(***************************************************************************)
C6_RotateAbsent ==
    [][(BackendCall("rotate") /\ ~HasSecret(Backend, last'.workspace[1], last'.name))
       => /\ last'.err = "SecretNotFound"
          /\ Backend' = Backend
          /\ ~HasSecret(Backend', last'.workspace[1], last'.name)]_vars

(***************************************************************************)
(* C7: rotate on an existing, unexpired secret returns the previous        *)
(* version plus 1, which is the version a store of the same name would     *)
(* have returned, keeps the name and createdAt, and a following retrieve   *)
(* returns the new value with that version.                                *)
(***************************************************************************)
C7_RotateExisting ==
    [][(/\ BackendCall("rotate")
        /\ HasSecret(Backend, last'.workspace[1], last'.name)
        /\ ~PastExpiry(Backend, last'.workspace[1], last'.name, now))
       => LET w == last'.workspace[1]
              before == StoredSecret(Backend, w, last'.name)
              stored == BackendStore(Backend, w, last'.name, last'.arg.value, None, None, now)
              got == BackendRetrieve(Backend', w, last'.name, None, now')
          IN /\ last'.err = ""
             /\ last'.res.version = before.version + 1
             /\ last'.res.version = stored.res.version
             /\ last'.res.name = last'.name
             /\ HasSecret(Backend', w, last'.name)
             /\ StoredSecret(Backend', w, last'.name).createdAt = before.createdAt
             /\ got.err = ""
             /\ got.res.value = last'.arg.value
             /\ got.res.version = last'.res.version]_vars

\* a rotate made after the clock has moved has returned version 2 and the
\* entry still carries the createdAt of its first store
C7_Witness ==
    /\ last.op = "rotate" /\ last.err = "" /\ last.res.version = 2
    /\ HasSecret(Backend, last.workspace[1], last.name)
    /\ LET e == StoredSecret(Backend, last.workspace[1], last.name)
       IN e.createdAt < e.updatedAt /\ e.value = last.arg.value /\ e.version = 2

(***************************************************************************)
(* SpecSess: the session table.  Sessions are minted with the default ttl  *)
(* or a ttl of one second; authenticate is also called with an invalid     *)
(* workspace; any id handed out so far, or the id never minted, is used    *)
(* and terminated while the clock moves.                                   *)
(***************************************************************************)
TtlChoices == {None, Some(1)}
AuthWorkspaces == {WsDefault, WsInvalid}
\* the ids a caller can present: those minted so far and one never minted
Presented == UnknownSid..(nextSid - 1)
SessionOps == {"store", "retrieve", "delete", "listSecrets", "rotate"}

NextSess ==
    \/ Tick
    \/ \E ttl \in TtlChoices :
          nextSid <= MaxSessSessions /\ Authenticate(WsDefault, "none", None, ttl)
    \/ Authenticate(WsInvalid, "none", None, None)
    \/ \E w \in AuthWorkspaces, sid \in {None} \cup {Some(i) : i \in Presented} :
          Authenticate(w, "terminate", sid, Some(1))
    \/ \E sid \in Presented, n \in {NameValue, NameInvalid} :
          ClientStore(sid, n, <<115>>, None, None)
    \/ \E sid \in Presented : ClientRetrieve(sid, NameValue, None)
    \/ \E sid \in Presented : ClientDelete(sid, NameValue)
    \/ \E sid \in Presented : ClientListSecrets(sid, None, None, None)
    \/ \E sid \in Presented : ClientRotate(sid, NameValue, <<115>>)

SpecSess == Init /\ [][NextSess]_vars

(***************************************************************************)
(* C9: store, retrieve, delete, listSecrets and rotate validate the        *)
(* session id before anything else.  An id that is not in the table fails  *)
(* with SessionNotFound; an id in the table with now > expiresAt fails     *)
(* with SessionExpired and is removed, so that its next use fails with     *)
(* SessionNotFound; an id with now <= expiresAt is accepted and stays.     *)
(***************************************************************************)
C9_SessionValidatedFirst ==
    [][last'.op \in SessionOps
       => LET sid == last'.sid[1]
          IN /\ sid \notin DOMAIN sessions
                => /\ last'.err = "SessionNotFound"
                   /\ sessions' = sessions
                   /\ Backend' = Backend
             /\ (sid \in DOMAIN sessions /\ now > sessions[sid].expiresAt)
                => /\ last'.err = "SessionExpired"
                   /\ sessions' = Del(sessions, sid)
                   /\ Backend' = Backend
                   /\ validateSession(sessions', sid, now').err = "SessionNotFound"
             /\ (sid \in DOMAIN sessions /\ now <= sessions[sid].expiresAt)
                => /\ last'.err \notin {"SessionNotFound", "SessionExpired"}
                   /\ sessions' = sessions]_vars

\* a call has just failed with SessionExpired on a session minted with a ttl of
\* one second, and the id is gone from the table
C9_Witness ==
    /\ last.op \in SessionOps /\ last.err = "SessionExpired"
    /\ last.sid[1] \in 1..(nextSid - 1)
    /\ last.sid[1] \notin DOMAIN sessions

(***************************************************************************)
(* C10, as stated: an authenticate with the TERMINATE method and a session *)
(* id removes the id from the table and never fails, whatever the other    *)
(* fields of the request; later session-scoped calls with the id fail with *)
(* SessionNotFound.                                                        *)
(***************************************************************************)
\* the step is a termination request that carries a session id
TerminateRequest ==
    last'.op = "authenticate" /\ last'.arg.authMethod = "terminate" /\ last'.sid # None

\* an id that is out of the table stays out and is refused
RemovedStaysRemoved ==
    /\ \A i \in Presented : i \notin DOMAIN sessions => i \notin DOMAIN sessions'
    /\ (last'.op \in SessionOps /\ last'.sid[1] \notin DOMAIN sessions)
       => last'.err = "SessionNotFound"

C10_TerminateAnyRequest ==
    [][/\ TerminateRequest
          => (last'.err = "" /\ last'.sid[1] \notin DOMAIN sessions')
       /\ RemovedStaysRemoved]_vars

(***************************************************************************)
(* C10, amended: an authenticate with the TERMINATE method and a session   *)
(* id whose workspace passes validateWorkspaceId removes exactly that id   *)
(* and does not fail, whether the id is live, expired, terminated or       *)
(* unknown; later session-scoped calls with the id fail with               *)
(* SessionNotFound.  With a workspace that fails validateWorkspaceId the   *)
(* request fails with InvalidWorkspace and the table is unchanged.         *)
(***************************************************************************)
C10_TerminateValidWorkspace ==
    [][/\ (TerminateRequest /\ validateWorkspaceId(last'.arg.workspace))
          => /\ last'.err = ""
             /\ sessions' = Del(sessions, last'.sid[1])
       /\ (TerminateRequest /\ ~validateWorkspaceId(last'.arg.workspace))
          => /\ last'.err = "InvalidWorkspace"
             /\ sessions' = sessions
       /\ RemovedStaysRemoved]_vars

\* a termination has just removed a session that had been minted
C10_Witness ==
    /\ last.op = "authenticate" /\ last.arg.authMethod = "terminate"
    /\ last.err = "" /\ last.sid # None
    /\ last.sid[1] \in 1..(nextSid - 1)
    /\ last.sid[1] \notin DOMAIN sessions

(***************************************************************************)
(* SpecIso: sessions on two workspaces, "default" and "constructor", that  *)
(* use the same secret names.                                              *)
(***************************************************************************)
IsoWorkspaces == {WsDefault, WsConstructor}

NextIso ==
    \/ \E w \in IsoWorkspaces : Authenticate(w, "none", None, None)
    \/ \E sid \in Minted, n \in Names, v \in Values : ClientStore(sid, n, v, None, None)
    \/ \E sid \in Minted, n \in Names : ClientRetrieve(sid, n, None)
    \/ \E sid \in Minted, n \in Names : ClientDelete(sid, n)
    \/ \E sid \in Minted : ClientListSecrets(sid, None, None, None)
    \/ \E sid \in Minted, n \in Names : ClientRotate(sid, n, <<0, 255>>)

SpecIso == Init /\ [][NextIso]_vars

\* what a call threw or returned, without the backend it left behind
Outcome(r) == [err |-> r.err, res |-> r.res]

\* what the read operations give on a workspace at time t
WorkspaceView(b, workspace, t) ==
    [retrieve |-> [n \in Names |-> Outcome(BackendRetrieve(b, workspace, n, None, t))],
     getMetadata |-> [n \in Names |-> Outcome(BackendGetMetadata(b, workspace, n, t))],
     listSecrets |-> Outcome(BackendListSecrets(b, workspace, None, None, DEFAULT_LIMIT, t))]

(***************************************************************************)
(* C5: every client operation made with a session runs against the         *)
(* workspace bound to that session, and no operation on a workspace B      *)
(* changes what retrieve, listSecrets or getMetadata give on another       *)
(* workspace A, also when both use the same secret name.                   *)
(***************************************************************************)
C5_WorkspaceIsolation ==
    [][(last'.op \in SessionOps /\ last'.workspace # None)
       => /\ last'.workspace[1] = sessions[last'.sid[1]].workspace
          /\ \A A \in IsoWorkspaces \ {last'.workspace[1]} :
                WorkspaceView(Backend', A, now') = WorkspaceView(Backend, A, now)]_vars

(***************************************************************************)
(* SpecConc: concurrent callers on one session.  A rotate is suspended at  *)
(* the await between its getMetadata and its store; other calls run while  *)
(* it is suspended.                                                        *)
(***************************************************************************)
NextConc ==
    \/ nextSid = 1 /\ Authenticate(WsDefault, "none", None, None)
    \/ \E sid \in Minted, v \in Values : ClientStore(sid, NameValue, v, None, None)
    \/ \E sid \in Minted : ClientRetrieve(sid, NameValue, None)
    \/ \E sid \in Minted : ClientDelete(sid, NameValue)
    \/ \E sid \in Minted, v \in Values : ClientRotateBegin(sid, NameValue, v)
    \/ \E call \in pending : ClientRotateResume(call)

SpecConc == Init /\ [][NextConc]_vars

(***************************************************************************)
(* C8: under every interleaving, rotate never creates a secret: a rotate   *)
(* that returns found the name present at the moment its write took        *)
(* effect, and so never returns version 1 for a newly created entry.       *)
(***************************************************************************)
C8_RotateNeverCreates ==
    [][(last'.op = "rotate" /\ last'.err = "")
       => /\ HasSecret(Backend, last'.workspace[1], last'.name)
          /\ last'.res.version > 1]_vars

(***************************************************************************)
(* SpecAuth: authenticate alone.  Sessions are requested with no ttl, a    *)
(* short ttl, the backend's maximum and more than the maximum, on a valid  *)
(* or an invalid workspace; terminations come with or without a session    *)
(* id; the clock moves and a session is used now and then.                 *)
(***************************************************************************)
AuthTtls == {None, Some(1), Some(maxSessionTtlSeconds), Some(maxSessionTtlSeconds + 1)}

NextAuth ==
    \/ Tick
    \/ \E w \in AuthWorkspaces, ttl \in AuthTtls :
          nextSid <= MaxSessSessions /\ Authenticate(w, "none", None, ttl)
    \/ \E w \in AuthWorkspaces, sid \in {None} \cup {Some(i) : i \in Presented} :
          Authenticate(w, "terminate", sid, None)
    \/ \E sid \in Presented : ClientRetrieve(sid, NameValue, None)

SpecAuth == Init /\ [][NextAuth]_vars

\* the step is an authenticate call that is no termination and returned
MintStep ==
    last'.op = "authenticate" /\ last'.arg.authMethod # "terminate" /\ last'.err = ""

(***************************************************************************)
(* C11: a session minted by a non-TERMINATE authenticate has ttlSeconds =  *)
(* min(requestedTtl, or 3600 when none is requested, the backend's         *)
(* maxSessionTtlSeconds) and expiresAt = createdAt + ttlSeconds seconds;   *)
(* no session in the table has a ttlSeconds above 86400.                   *)
(***************************************************************************)
C11_SessionTtl ==
    [][/\ MintStep
          => LET asked == IF last'.arg.requestedTtl = None THEN 3600
                          ELSE last'.arg.requestedTtl[1]
                 ttl == IF asked < 86400 THEN asked ELSE 86400
                 session == last'.res
             IN /\ session.ttlSeconds = ttl
                /\ session.createdAt = now
                /\ session.expiresAt = session.createdAt + ttl * 1000
                /\ session.sessionId \in DOMAIN sessions'
                /\ sessions'[session.sessionId] = session
       /\ \A id \in DOMAIN sessions' :
             /\ sessions'[id].ttlSeconds <= 86400
             /\ sessions'[id].expiresAt
                  = sessions'[id].createdAt + sessions'[id].ttlSeconds * 1000]_vars

\* a session asked for with more than the maximum sits in the table with the
\* maximum, minted after the clock has moved
C11_Witness ==
    /\ last.op = "authenticate" /\ last.err = "" /\ last.arg.authMethod = "none"
    /\ last.arg.requestedTtl = Some(maxSessionTtlSeconds + 1)
    /\ last.res.ttlSeconds = 86400
    /\ last.res.createdAt > 0
    /\ last.res.sessionId \in DOMAIN sessions

(***************************************************************************)
(* C12: authenticate with a workspace id that validateWorkspaceId rejects  *)
(* fails with InvalidWorkspace and leaves the session table unchanged: no  *)
(* session is created and none is removed.                                 *)
(***************************************************************************)
C12_InvalidWorkspace ==
    [][(last'.op = "authenticate" /\ ~validateWorkspaceId(last'.arg.workspace))
       => /\ last'.err = "InvalidWorkspace"
          /\ sessions' = sessions
          /\ nextSid' = nextSid]_vars

\* a termination naming a live session has failed on its workspace and the
\* session is still in the table
C12_Witness ==
    /\ last.op = "authenticate" /\ last.err = "InvalidWorkspace"
    /\ last.arg.authMethod = "terminate"
    /\ last.sid # None /\ last.sid[1] \in DOMAIN sessions

(***************************************************************************)
(* C13, as stated: an authenticate with the TERMINATE method and no        *)
(* session id fails with AuthenticationFailed, mints no session and        *)
(* removes none.                                                           *)
(***************************************************************************)
\* the step is a termination request without a session id
TerminateWithoutId ==
    last'.op = "authenticate" /\ last'.arg.authMethod = "terminate" /\ last'.sid = None

C13_TerminateWithoutId ==
    [][TerminateWithoutId
       => /\ last'.err = "AuthenticationFailed"
          /\ sessions' = sessions
          /\ nextSid' = nextSid]_vars

(***************************************************************************)
(* C13, amended: an authenticate with the TERMINATE method and no session  *)
(* id mints no session and removes none; it fails with                     *)
(* AuthenticationFailed when its workspace passes validateWorkspaceId and  *)
(* with InvalidWorkspace when it does not.                                 *)
(***************************************************************************)
C13_TerminateWithoutIdValidWorkspace ==
    [][TerminateWithoutId
       => /\ last'.err = IF validateWorkspaceId(last'.arg.workspace)
                         THEN "AuthenticationFailed" ELSE "InvalidWorkspace"
          /\ sessions' = sessions
          /\ nextSid' = nextSid]_vars

\* a termination without a session id has failed while a session was live
C13_Witness ==
    /\ last.op = "authenticate" /\ last.err = "AuthenticationFailed"
    /\ last.arg.authMethod = "terminate" /\ last.sid = None
    /\ sessions # EmptyMap

(***************************************************************************)
(* SpecValid: store with arguments that pass and arguments that fail its   *)
(* checks: an unknown, an expired or a live session, a valid or an invalid *)
(* name, a small value or one byte more than the backend accepts.          *)
(***************************************************************************)
OverLimit == [i \in 1..(maxSecretValueLength + 1) |-> 0]

StoreNames == {NameValue, NameInvalid}
StoreValues == {<<115>>, OverLimit}

NextValid ==
    \/ Tick
    \/ \E ttl \in TtlChoices : nextSid = 1 /\ Authenticate(WsDefault, "none", None, ttl)
    \/ \E sid \in Presented, name \in StoreNames, value \in StoreValues :
          ClientStore(sid, name, value, None, None)
    \/ \E sid \in Presented : ClientDelete(sid, NameValue)

SpecValid == Init /\ [][NextValid]_vars

(***************************************************************************)
(* C14: a client store that fails validation makes no backend call.  The   *)
(* checks run in the order session, secret name, value size, and a store   *)
(* that fails with SessionNotFound, SessionExpired, InvalidName or         *)
(* ValueTooLarge leaves the backend's content unchanged in every           *)
(* workspace.                                                              *)
(***************************************************************************)
C14_StoreValidation ==
    [][last'.op = "store"
       => /\ IF last'.sid[1] \notin DOMAIN sessions
                THEN last'.err = "SessionNotFound"
             ELSE IF now > sessions[last'.sid[1]].expiresAt
                THEN last'.err = "SessionExpired"
             ELSE IF ~validateSecretName(last'.name)
                THEN last'.err = "InvalidName"
             ELSE IF Len(last'.arg.value) > 65536
                THEN last'.err = "ValueTooLarge"
             ELSE last'.err \notin {"SessionNotFound", "SessionExpired",
                                    "InvalidName", "ValueTooLarge"}
          /\ last'.err \in {"SessionNotFound", "SessionExpired",
                            "InvalidName", "ValueTooLarge"}
             => /\ Backend' = Backend
                /\ last'.res = EmptyMap]_vars

\* a store with an invalid name and a value over the limit has failed on the
\* name while the backend held a secret
C14_Witness ==
    /\ last.op = "store" /\ last.err = "InvalidName"
    /\ Len(last.arg.value) > maxSecretValueLength
    /\ HasSecret(Backend, WsDefault, NameValue)

(***************************************************************************)
(* SpecSize: a client built on a MemoryBackend; one session on the default *)
(* workspace stores, rotates, retrieves and deletes one secret with a      *)
(* small value, a value of exactly maxSecretValueLength bytes and a value  *)
(* of one byte more, while the clock moves.                                *)
(***************************************************************************)
AtLimit == [i \in 1..maxSecretValueLength |-> 0]

SizeValues == {<<115>>, AtLimit, OverLimit}

InitMemory == Init /\ backendType = "memory"

NextSize ==
    \/ Tick
    \/ nextSid = 1 /\ Authenticate(WsDefault, "none", None, None)
    \/ \E sid \in Minted, value \in SizeValues :
          ClientStore(sid, NameValue, value, None, None)
    \/ \E sid \in Minted, value \in SizeValues : ClientRotate(sid, NameValue, value)
    \/ \E sid \in Minted : ClientRetrieve(sid, NameValue, None)
    \/ \E sid \in Minted : ClientDelete(sid, NameValue)

SpecSize == InitMemory /\ [][NextSize]_vars

(***************************************************************************)
(* C15: the orchestrator enforces the backend's value-length limit before  *)
(* delegating: a store with a value longer than maxSecretValueLength fails *)
(* with ValueTooLarge, a value of exactly that length is accepted, and     *)
(* after any sequence of client operations (store, rotate, delete, ...)    *)
(* every value the backend holds has length <= maxSecretValueLength.       *)
(***************************************************************************)
C15_ValueLengthLimit ==
    [][/\ (BackendCall("store") /\ Len(last'.arg.value) > 65536)
          => last'.err = "ValueTooLarge" /\ Backend' = Backend
       /\ (BackendCall("store") /\ Len(last'.arg.value) = 65536)
          => last'.err = ""
       /\ \A name \in Names :
             HasSecret(Backend', WsDefault, name)
             => Len(StoredSecret(Backend', WsDefault, name).value) <= 65536]_vars

(***************************************************************************)
(* SpecVer: one session stores, rotates, deletes and retrieves, asking for *)
(* no version, version 1 or version 2, while secrets expire.               *)
(***************************************************************************)
VersionChoices == {None, Some(1), Some(MaxVersion)}

NextVer ==
    \/ Tick
    \/ nextSid = 1 /\ Authenticate(WsDefault, "none", None, None)
    \/ \E sid \in Minted, n \in Names, e \in ExpiryChoices :
           ClientStore(sid, n, <<115>>, None, e)
    \/ \E sid \in Minted, n \in Names, v \in VersionChoices : ClientRetrieve(sid, n, v)
    \/ \E sid \in Minted, n \in Names : ClientDelete(sid, n)
    \/ \E sid \in Minted, n \in Names : ClientRotate(sid, n, <<0, 255>>)

SpecVer == Init /\ [][NextVer]_vars

\* the entry under (workspace, name) exists and its expiresAt, if any, is not
\* earlier than t
LiveSecret(b, workspace, name, t) ==
    HasSecret(b, workspace, name) /\ ~PastExpiry(b, workspace, name, t)

(***************************************************************************)
(* C16: a retrieve with an explicit version v succeeds exactly when the    *)
(* secret exists, is not expired and its current version equals v; when v  *)
(* differs from the current version it fails with SecretNotFound and       *)
(* leaves the secret unchanged, so a retrieve without a version still      *)
(* succeeds afterwards.                                                    *)
(***************************************************************************)
C16_RetrieveVersion ==
    [][(BackendCall("retrieve") /\ last'.arg.version # None)
       => LET w == last'.workspace[1]
              n == last'.name
              v == last'.arg.version[1]
              live == LiveSecret(Backend, w, n, now)
          IN /\ last'.err = "" <=> (live /\ StoredSecret(Backend, w, n).version = v)
             /\ last'.err = ""
                => /\ last'.res.value = StoredSecret(Backend, w, n).value
                   /\ last'.res.version = v
             /\ (live /\ StoredSecret(Backend, w, n).version # v)
                => /\ last'.err = "SecretNotFound"
                   /\ Backend' = Backend
                   /\ LET again == BackendRetrieve(Backend', w, n, None, now)
                      IN /\ again.err = ""
                         /\ again.res.value = StoredSecret(Backend, w, n).value
                         /\ again.res.version = StoredSecret(Backend, w, n).version]_vars

\* version 1 of a secret that is at version 2 and not expired has been asked
\* for and refused; the secret is still there
C16_Witness ==
    /\ last.op = "retrieve" /\ last.arg.version = Some(1) /\ last.err = "SecretNotFound"
    /\ last.workspace # None
    /\ LiveSecret(Backend, last.workspace[1], last.name, now)
    /\ StoredSecret(Backend, last.workspace[1], last.name).version = 2

(***************************************************************************)
(* C17: no element of a listSecrets result carries a value field: an       *)
(* element has a name, a workspace and metadata; a secret's value leaves   *)
(* the backend only through retrieve.                                      *)
(***************************************************************************)
C17_ListCarriesNoValue ==
    /\ (last.op = "listSecrets" /\ last.err = "")
       => \A i \in 1..Len(last.res.secrets) :
             /\ DOMAIN last.res.secrets[i] = {"name", "workspace", "metadata"}
             /\ "value" \notin DOMAIN last.res.secrets[i].metadata
    /\ (last.op # "retrieve" /\ last.err = "")
       => "value" \notin DOMAIN last.res
    /\ (last.op = "retrieve" /\ last.err = "")
       => "value" \in DOMAIN last.res

\* listSecrets has just returned an element for a secret whose bytes the backend
\* holds
C17_Witness ==
    /\ last.op = "listSecrets" /\ last.err = ""
    /\ Len(last.res.secrets) >= 1
    /\ HasSecret(Backend, WsDefault, last.res.secrets[1].name)
    /\ StoredSecret(Backend, WsDefault, last.res.secrets[1].name).value \in Values

(***************************************************************************)
(* SpecList: one session stores two secrets, one under changing labels and *)
(* one with or without an expiry, deletes them and lists the workspace     *)
(* with no filter, an empty filter, one key or two keys.                   *)
(***************************************************************************)
NameA == <<"a">>
NameB == <<"B">>
ListNames == {NameA, NameB}

LabelChoices == {None, Some([env |-> "prod"]), Some([env |-> "dev", tier |-> "1"]),
                 Some([env |-> "prod", tier |-> "1"])}
FilterChoices == {None, Some(EmptyMap), Some([env |-> "prod"]),
                  Some([env |-> "prod", tier |-> "1"])}

NextList ==
    \/ Tick
    \/ nextSid = 1 /\ Authenticate(WsDefault, "none", None, None)
    \/ \E sid \in Minted, labels \in LabelChoices :
          ClientStore(sid, NameA, <<115>>, labels, None)
    \/ \E sid \in Minted, e \in ExpiryChoices :
          ClientStore(sid, NameB, <<115>>, Some([env |-> "prod"]), e)
    \/ \E sid \in Minted, n \in ListNames : ClientDelete(sid, n)
    \/ \E sid \in Minted, filter \in FilterChoices :
          ClientListSecrets(sid, filter, None, None)

SpecList == Init /\ [][NextList]_vars

(***************************************************************************)
(* C18: listSecrets with filterLabels returns, before pagination, exactly  *)
(* the unexpired secrets of the workspace whose labels hold, for every key *)
(* supplied, the value supplied; a secret that lacks a supplied key or has *)
(* another value under it is left out.  With no filter every unexpired     *)
(* secret is returned.                                                     *)
(***************************************************************************)
C18_LabelFilter ==
    [][(BackendCall("listSecrets") /\ last'.arg.cursor = None /\ last'.arg.limit = None)
       => LET w == last'.workspace[1]
              filter == last'.arg.filterLabels
              wanted == {n \in ListNames :
                           /\ LiveSecret(Backend, w, n, now)
                           /\ filter # None
                              => \A k \in DOMAIN filter[1] :
                                    /\ k \in DOMAIN StoredSecret(Backend, w, n).labels
                                    /\ StoredSecret(Backend, w, n).labels[k] = filter[1][k]}
          IN /\ last'.err = ""
             /\ ListedNames(last'.res.secrets) = wanted
             /\ Len(last'.res.secrets) = Cardinality(wanted)]_vars

\* a list with a filter of two keys has returned one secret and left out an
\* unexpired secret that holds only one of the two
C18_Witness ==
    /\ last.op = "listSecrets" /\ last.err = ""
    /\ last.arg.filterLabels = Some([env |-> "prod", tier |-> "1"])
    /\ ListedNames(last.res.secrets) = {NameA}
    /\ LiveSecret(Backend, WsDefault, NameB, now)
    /\ StoredSecret(Backend, WsDefault, NameB).labels = [env |-> "prod"]

(***************************************************************************)
(* SpecPage: one session stores and deletes three secrets and walks the    *)
(* list page by page: a first page with a limit and with or without a      *)
(* filter, then pages asked for with the cursor the page before returned.  *)
(***************************************************************************)
MaxLimit == 3

NameC == <<"c">>
PageNames == {NameA, NameB, NameC}
PageFilters == {None, Some([env |-> "prod"])}

\* the call before was a page of a list that left a cursor
PageLeftCursor == last.op = "listSecrets" /\ last.err = "" /\ last.res.cursor # None

NextPage ==
    \/ nextSid = 1 /\ Authenticate(WsDefault, "none", None, None)
    \/ \E sid \in Minted, n \in {NameA, NameB} :
          ClientStore(sid, n, <<115>>, Some([env |-> "prod"]), None)
    \/ \E sid \in Minted, labels \in {None, Some([env |-> "prod"])} :
          ClientStore(sid, NameC, <<115>>, labels, None)
    \/ \E sid \in Minted, n \in PageNames : ClientDelete(sid, n)
    \/ \E sid \in Minted, filter \in PageFilters, k \in 1..MaxLimit :
          ClientListSecrets(sid, filter, None, Some(k))
    \/ \E sid \in Minted :
          /\ PageLeftCursor
          /\ ClientListSecrets(sid, last.arg.filterLabels, last.res.cursor, last.arg.limit)

SpecPage == Init /\ [][NextPage]_vars

\* the pages a caller gets who lists with limit k and follows the cursors, the
\* backend staying as it is; at most fuel pages after the first
RECURSIVE Traverse(_, _, _, _, _, _, _)
Traverse(b, workspace, filter, cursor, k, t, fuel) ==
    LET r == BackendListSecrets(b, workspace, filter, cursor, k, t)
        page == [secrets |-> r.res.secrets, cursor |-> r.res.cursor,
                 hasMore |-> r.res.cursor # None]
    IN IF r.res.cursor = None \/ fuel = 0 THEN <<page>>
       ELSE <<page>> \o Traverse(b, workspace, filter, r.res.cursor, k, t, fuel - 1)

RECURSIVE Concat(_)
Concat(pages) ==
    IF Len(pages) = 0 THEN <<>> ELSE Head(pages).secrets \o Concat(Tail(pages))

(***************************************************************************)
(* C19: with no mutation in between and a limit k >= 1, a traversal of     *)
(* listSecrets over n >= 1 filtered secrets ends after exactly ceil(n/k)   *)
(* pages; the pages together contain every filtered secret exactly once,   *)
(* in ascending name order; every page but the last has k elements, a      *)
(* cursor and hasMore = true; the last page has no cursor and hasMore =    *)
(* false.                                                                  *)
(***************************************************************************)
\* the secrets of PageNames a list of workspace w with the filter is to return
Filtered(b, w, filter, t) ==
    {n \in PageNames :
       /\ LiveSecret(b, w, n, t)
       /\ filter # None
          => \A key \in DOMAIN filter[1] :
                /\ key \in DOMAIN StoredSecret(b, w, n).labels
                /\ StoredSecret(b, w, n).labels[key] = filter[1][key]}

C19_Traversal ==
    [][(BackendCall("listSecrets") /\ last'.err = "" /\ last'.arg.limit # None)
       => \A k \in {last'.arg.limit[1]},
             wanted \in {Filtered(Backend, last'.workspace[1], last'.arg.filterLabels, now)} :
          \A pages \in {Traverse(Backend, last'.workspace[1], last'.arg.filterLabels,
                                 None, k, now, Cardinality(wanted) + 1)} :
          \A all \in {Concat(pages)}, count \in {Len(pages)}, n \in {Cardinality(wanted)} :
             /\ Backend' = Backend
             /\ n >= 1
                => /\ count = (n + k - 1) \div k
                   /\ Len(all) = n
                   /\ {all[i].name : i \in 1..Len(all)} = wanted
                   /\ \A i \in 1..Len(all), j \in 1..Len(all) :
                         i < j => localeCompare(all[i].name, all[j].name) < 0
                   /\ \A p \in 1..(count - 1) :
                         /\ Len(pages[p].secrets) = k
                         /\ pages[p].cursor # None
                         /\ pages[p].hasMore = TRUE
                   /\ pages[count].cursor = None
                   /\ pages[count].hasMore = FALSE
                   \* the page this call returned is the page of the traversal
                   /\ IF last'.arg.cursor = None THEN last'.res = pages[1]
                      ELSE \E p \in 2..count :
                              /\ pages[p - 1].cursor = last'.arg.cursor
                              /\ last'.res = pages[p]]_vars

\* three secrets walked with limit 2: the second page, asked for with the
\* cursor of the first, holds the third secret and ends the walk
C19_Witness ==
    /\ last.op = "listSecrets" /\ last.err = ""
    /\ last.arg.limit = Some(2) /\ last.arg.cursor # None
    /\ ListedNames(last.res.secrets) = {NameC}
    /\ last.res.hasMore = FALSE /\ last.res.cursor = None
    /\ \A n \in PageNames : HasSecret(Backend, WsDefault, n)

(***************************************************************************)
(* SpecFile: a vault is written, closed and opened again.  A session on    *)
(* one of two workspaces stores, rotates and deletes a secret while the    *)
(* clock moves; the client is closed; a new client is built on a new       *)
(* backend for the same path, in the same or in a new process.             *)
(***************************************************************************)
NextFile ==
    \/ Tick
    \/ \E w \in IsoWorkspaces :
          sessions = EmptyMap /\ Authenticate(w, "none", None, None)
    \/ \E sid \in DOMAIN sessions, e \in ExpiryChoices :
          ClientStore(sid, NameValue, <<115>>, Some([env |-> "prod"]), e)
    \/ \E sid \in DOMAIN sessions : ClientRotate(sid, NameValue, <<0, 255>>)
    \/ \E sid \in DOMAIN sessions : ClientDelete(sid, NameValue)
    \/ ClientClose
    \/ \E newProcess \in BOOLEAN : Reopen(newProcess, VaultPassword)

SpecFile == Init /\ [][NextFile]_vars

(***************************************************************************)
(* C20: for the file store, after any sequence of store, rotate and delete *)
(* calls followed by close, a new FileBackend on the same path with the    *)
(* same password yields a vault in which every secret has the same value,  *)
(* version, labels, createdAt, updatedAt and expiresAt as before the       *)
(* close, and no other secrets.                                            *)
(***************************************************************************)
C20_ReopenSameVault ==
    [][(last.op = "close" /\ last'.op = "open")
       => \A w \in IsoWorkspaces, n \in Names :
             /\ HasSecret(Backend', w, n) <=> HasSecret(Backend, w, n)
             /\ HasSecret(Backend, w, n)
                => StoredSecret(Backend', w, n) = StoredSecret(Backend, w, n)]_vars

(***************************************************************************)
(* SpecOpen: a vault is written by a session that stores, rotates and      *)
(* deletes; the file is damaged from outside; a FileBackend is constructed *)
(* on the path with the password of the vault or with another one.         *)
(***************************************************************************)
OtherPassword == "other"
Passwords == {VaultPassword, OtherPassword}
Damages == {"altered", "partial", "nothing"}

NextOpen ==
    \/ sessions = EmptyMap /\ Authenticate(WsDefault, "none", None, None)
    \/ \E sid \in DOMAIN sessions, n \in Names : ClientStore(sid, n, <<115>>, None, None)
    \/ \E sid \in DOMAIN sessions : ClientRotate(sid, NameValue, <<0, 255>>)
    \/ \E sid \in DOMAIN sessions : ClientDelete(sid, NameValue)
    \/ \E held \in Damages : DamageFile(held)
    \/ \E newProcess \in BOOLEAN, password \in Passwords : Reopen(newProcess, password)

SpecOpen == Init /\ [][NextOpen]_vars

(***************************************************************************)
(* C21: constructing a FileBackend on an existing vault file with a        *)
(* password other than the one it was written with, or on a vault file     *)
(* whose bytes were altered or truncated, fails with an encryption error   *)
(* at construction; it never yields a usable backend holding partial data  *)
(* or an empty default vault.                                              *)
(***************************************************************************)
C21_OpenFailsOnWrongKeyOrDamage ==
    [][(/\ last'.op = "open"
        /\ vaultFile # None
        /\ \/ last'.arg.password # VaultPassword
           \/ vaultFile[1].held # "whole")
       => /\ last'.err = "EncryptionError"
          /\ UNCHANGED <<data, sessions>>]_vars

(***************************************************************************)
(* C22: the file store persists after every mutation: after any successful *)
(* store, rotate or delete, without a close, a FileBackend opened on the   *)
(* same path with the same password gives the same results for retrieve,   *)
(* listSecrets and getMetadata as the live instance.                       *)
(***************************************************************************)
C22_PersistedAfterMutation ==
    [][(/\ last.op \in {"store", "rotate", "delete"} /\ last.err = ""
        /\ last'.op = "open")
       => /\ last'.err = ""
          /\ \A w \in IsoWorkspaces :
                WorkspaceView(Backend', w, now') = WorkspaceView(Backend, w, now)]_vars

(***************************************************************************)
(* C23: for each (workspace, name), the versions returned by successive    *)
(* successful store and rotate calls never decrease, and a store returns   *)
(* version 1 for a name stored before only when a delete call removed that *)
(* name since its previous store.  Step by step: while an entry is held    *)
(* under the name, a store or rotate returns no lower version than the     *)
(* entry's, and after any call other than a delete of the name the next    *)
(* store of the name returns a higher version than the entry had.          *)
(***************************************************************************)
C23_VersionResetsOnlyAfterDelete ==
    [][\A n \in Names :
          HasSecret(Backend, WsDefault, n)
          => \A old \in {StoredSecret(Backend, WsDefault, n).version} :
                /\ (last'.op \in {"store", "rotate"} /\ last'.err = "" /\ last'.name = n)
                   => last'.res.version >= old
                /\ ~(last'.op = "delete" /\ last'.name = n)
                   => \A r \in {BackendStore(Backend', WsDefault, n, <<115>>, None, None,
                                             now')} :
                         r.err = "" => r.res.version > old]_vars

\* C23 as the code has it: while an entry is held under the name, a store or
\* rotate returns the entry's version plus one; a store returns version 1, with
\* created = TRUE, exactly when no entry is held; and an entry goes away by a
\* delete of the name or by a retrieve, getMetadata or rotate of the name that
\* finds it past its expiresAt
C23_VersionResetsWhenEntryGone ==
    [][\A n \in Names :
          /\ (last'.op \in {"store", "rotate"} /\ last'.err = "" /\ last'.name = n)
             => IF HasSecret(Backend, WsDefault, n)
                THEN /\ last'.res.version = StoredSecret(Backend, WsDefault, n).version + 1
                     /\ last'.op = "store" => last'.res.created = FALSE
                ELSE /\ last'.op = "store"
                     /\ last'.res.version = 1
                     /\ last'.res.created = TRUE
          /\ (HasSecret(Backend, WsDefault, n) /\ ~HasSecret(Backend', WsDefault, n))
             => /\ last'.name = n
                /\ \/ last'.op = "delete" /\ last'.err = "" /\ last'.res.deleted = TRUE
                   \/ /\ last'.op \in {"retrieve", "getMetadata", "rotate"}
                      /\ last'.err = "SecretNotFound"
                      /\ PastExpiry(Backend, WsDefault, n, now)]_vars

\* a store at the end of the clock creates the name with version 1 while the
\* other name is held at the highest version
C23_Witness ==
    /\ last.op = "store" /\ last.err = "" /\ last.name = NameValue
    /\ last.res.version = 1 /\ last.res.created = TRUE
    /\ last.arg.expiresAt = Some(TickMs)
    /\ now = MaxTicks * TickMs
    /\ backendType = "memory"
    /\ HasSecret(Backend, WsDefault, NameConstructor)
    /\ StoredSecret(Backend, WsDefault, NameConstructor).version = MaxVersion

(***************************************************************************)
(* C24: lazy expiration: the first retrieve, listSecrets or getMetadata    *)
(* call that observes a secret past its expiresAt deletes that entry, so   *)
(* after the call the entry is absent: a following store returns           *)
(* created = TRUE and version 1.  A retrieve or getMetadata observes the   *)
(* secret it names, a listSecrets every secret of the workspace.           *)
(***************************************************************************)
C24_LazyExpiration ==
    [][\A n \in Names :
          (/\ HasSecret(Backend, WsDefault, n)
           /\ PastExpiry(Backend, WsDefault, n, now)
           /\ \/ BackendCall("listSecrets")
              \/ (BackendCall("retrieve") \/ BackendCall("getMetadata")) /\ last'.name = n)
          => /\ ~HasSecret(Backend', WsDefault, n)
             /\ \A r \in {BackendStore(Backend', WsDefault, n, <<115>>, None, None, now')} :
                   r.err = "" /\ r.res.created = TRUE /\ r.res.version = 1]_vars

(***************************************************************************)
(* The error classes (errors.ts).  An error is its class name, its code,   *)
(* its message and its detail.                                             *)
(***************************************************************************)
\* new AVPError(message, code = "AVP_ERROR", detail = {})
AVPError(name, message, code, detail) ==
    [name |-> name, code |-> code, message |-> message, detail |-> detail]

\* the classes a caller constructs with (message?, detail?) or (message?): the
\* code each passes to super, its default message, whether it takes a detail
ErrorClasses ==
    [AuthenticationError |->
        [code |-> "AUTHENTICATION_FAILED", message |-> "Authentication failed", detail |-> TRUE],
     SessionExpiredError |->
        [code |-> "SESSION_EXPIRED", message |-> "Session has expired", detail |-> FALSE],
     SessionTerminatedError |->
        [code |-> "SESSION_TERMINATED", message |-> "Session was terminated", detail |-> FALSE],
     SessionNotFoundError |->
        [code |-> "SESSION_NOT_FOUND", message |-> "Session not found", detail |-> FALSE],
     SecretNotFoundError |->
        [code |-> "SECRET_NOT_FOUND", message |-> "Secret not found", detail |-> FALSE],
     InvalidNameError |->
        [code |-> "INVALID_NAME", message |-> "Invalid name", detail |-> FALSE],
     InvalidWorkspaceError |->
        [code |-> "INVALID_WORKSPACE", message |-> "Invalid workspace", detail |-> FALSE],
     CapacityExceededError |->
        [code |-> "CAPACITY_EXCEEDED", message |-> "Capacity exceeded", detail |-> TRUE],
     BackendError |->
        [code |-> "BACKEND_ERROR", message |-> "Backend error", detail |-> TRUE],
     RateLimitError |->
        [code |-> "RATE_LIMIT_EXCEEDED", message |-> "Rate limit exceeded", detail |-> TRUE],
     ValueTooLargeError |->
        [code |-> "VALUE_TOO_LARGE", message |-> "Value too large", detail |-> FALSE],
     EncryptionError |->
        [code |-> "ENCRYPTION_ERROR", message |-> "Encryption error", detail |-> FALSE],
     IntegrityError |->
        [code |-> "INTEGRITY_ERROR", message |-> "Integrity error", detail |-> FALSE]]

\* new BackendUnavailableError(message?): super(message, { code: "BACKEND_UNAVAILABLE" })
\* hands the object to BackendError as its detail; the code stays BackendError's
BackendUnavailableError(message) ==
    AVPError("BackendUnavailableError",
             IF message = None THEN "Backend unavailable" ELSE message[1],
             ErrorClasses.BackendError.code,
             [code |-> "BACKEND_UNAVAILABLE"])

\* new SessionError(message): the base of the session errors
SessionError(message) == AVPError("SessionError", message, "SESSION_ERROR", EmptyMap)

\* new <class>(message?, detail?); a class that takes no detail ignores it
NewError(class, message, detail) ==
    IF class = "BackendUnavailableError" THEN BackendUnavailableError(message)
    ELSE AVPError(class,
                  IF message = None THEN ErrorClasses[class].message ELSE message[1],
                  ErrorClasses[class].code,
                  IF detail = None \/ ~ErrorClasses[class].detail THEN EmptyMap
                  ELSE detail[1])

\* AVPError.toJSON()
toJSON(error) ==
    [ok |-> FALSE,
     error |-> [code |-> error.code, message |-> error.message, detail |-> error.detail]]

\* ERROR_MAP: the class constructed for a code
ERROR_MAP ==
    [AUTHENTICATION_FAILED |-> "AuthenticationError",
     SESSION_ERROR |-> "SessionError",
     SESSION_EXPIRED |-> "SessionExpiredError",
     SESSION_TERMINATED |-> "SessionTerminatedError",
     SESSION_NOT_FOUND |-> "SessionNotFoundError",
     SECRET_NOT_FOUND |-> "SecretNotFoundError",
     INVALID_NAME |-> "InvalidNameError",
     INVALID_WORKSPACE |-> "InvalidWorkspaceError",
     CAPACITY_EXCEEDED |-> "CapacityExceededError",
     BACKEND_ERROR |-> "BackendError",
     BACKEND_UNAVAILABLE |-> "BackendUnavailableError",
     RATE_LIMIT_EXCEEDED |-> "RateLimitError",
     VALUE_TOO_LARGE |-> "ValueTooLargeError",
     ENCRYPTION_ERROR |-> "EncryptionError",
     INTEGRITY_ERROR |-> "IntegrityError"]

\* fromErrorResponse(response): a missing or empty code reads as "AVP_ERROR", a
\* missing or empty message as "Unknown error"; the class is built from the
\* message alone
fromErrorResponse(response) ==
    LET errorData == IF "error" \in DOMAIN response THEN response.error ELSE EmptyMap
        code == IF "code" \in DOMAIN errorData /\ errorData.code # ""
                THEN errorData.code ELSE "AVP_ERROR"
        message == IF "message" \in DOMAIN errorData /\ errorData.message # ""
                   THEN errorData.message ELSE "Unknown error"
    IN IF code \notin DOMAIN ERROR_MAP THEN AVPError("AVPError", message, "AVP_ERROR", EmptyMap)
       ELSE IF ERROR_MAP[code] = "SessionError" THEN SessionError(message)
       ELSE NewError(ERROR_MAP[code], Some(message), None)

(***************************************************************************)
(* SpecErr: errors of every kind are constructed, turned into envelopes    *)
(* and read back.                                                          *)
(***************************************************************************)
\* the kinds of the taxonomy, by class
ErrorKinds == DOMAIN ErrorClasses \cup {"BackendUnavailableError"}
ErrorMessages == {None, Some("boom"), Some("")}
ErrorDetails == {None, Some([reason |-> "quota"])}
\* responses received that no toJSON of this library wrote
ForeignResponses ==
    {[ok |-> FALSE],
     [ok |-> FALSE, error |-> [message |-> "boom"]],
     [ok |-> FALSE, error |-> [code |-> "TEAPOT", message |-> "boom"]],
     [ok |-> FALSE, error |-> [code |-> "BACKEND_UNAVAILABLE", message |-> ""]]}

UnchangedButLast ==
    UNCHANGED <<backendType, now, sessions, nextSid, secrets, data, objectProps,
                vaultFile, pending>>

\* an error of the class is constructed
Raise(class, message, detail) ==
    /\ last' = Call("raise", None, None, None,
                    [class |-> class, message |-> message, detail |-> detail], "",
                    NewError(class, message, detail))
    /\ UnchangedButLast

\* toJSON() of the error just constructed or read back
ToJSON ==
    /\ last.op \in {"raise", "fromErrorResponse"}
    /\ last' = Call("toJSON", None, None, None, last.res, "", toJSON(last.res))
    /\ UnchangedButLast

\* fromErrorResponse of the envelope just written
ReadBack ==
    /\ last.op = "toJSON"
    /\ last' = Call("fromErrorResponse", None, None, None, last.res, "",
                    fromErrorResponse(last.res))
    /\ UnchangedButLast

\* fromErrorResponse of a response from elsewhere
ReadForeign(response) ==
    /\ last' = Call("fromErrorResponse", None, None, None, response, "",
                    fromErrorResponse(response))
    /\ UnchangedButLast

NextErr ==
    \/ \E class \in ErrorKinds, message \in ErrorMessages, detail \in ErrorDetails :
          Raise(class, message, detail)
    \/ ToJSON
    \/ ReadBack
    \/ \E response \in ForeignResponses : ReadForeign(response)

SpecErr == Init /\ [][NextErr]_vars

(***************************************************************************)
(* C25: for every error kind of the taxonomy, toJSON yields the envelope   *)
(* {ok: false, error: {code, message, detail}} with that kind's own code,  *)
(* distinct from the code of every other kind, and fromErrorResponse on    *)
(* that envelope yields an error of the same kind with the same code.      *)
(***************************************************************************)
C25_ErrorRoundTrip ==
    [][/\ (last.op = "raise" /\ last'.op = "toJSON")
          => /\ last'.res = [ok |-> FALSE,
                             error |-> [code |-> last.res.code,
                                        message |-> last.res.message,
                                        detail |-> last.res.detail]]
             /\ \A other \in ErrorKinds \ {last.res.name} :
                   toJSON(NewError(other, None, None)).error.code # last'.res.error.code
       /\ (last.op = "toJSON" /\ last'.op = "fromErrorResponse" /\ last'.arg = last.res
           /\ last.arg.name \in ErrorKinds)
          => /\ last'.res.name = last.arg.name
             /\ last'.res.code = last.arg.code]_vars

(***************************************************************************)
(* SpecNames: one of the two validators is called with a string: every     *)
(* string of up to MaxNameLen characters over a small alphabet, and        *)
(* strings around the length limit.                                        *)
(***************************************************************************)
MaxNameLen == 3
\* a letter of each case, a digit, the four punctuation marks, a space, the
\* characters next to the letters in ASCII and a letter outside ASCII
NameAlphabet == {"a", "Z", "7", "_", ".", "-", "/", " ", "@", "[", "é"}
Repeat(c, n) == [i \in 1..n |-> c]
LongNames ==
    UNION {{Repeat("a", n), Repeat("a", n - 1) \o <<"/">>, <<"0">> \o Repeat("-", n - 1)} :
           n \in {maxNameLength - 1, maxNameLength, maxNameLength + 1}}
NameInputs == UNION {[1..k -> NameAlphabet] : k \in 0..MaxNameLen} \cup LongNames

\* the process starts with a string to validate
InitNames ==
    /\ backendType \in {"memory", "file"}
    /\ now = 0
    /\ sessions = EmptyMap
    /\ nextSid = 1
    /\ secrets = EmptyMap
    /\ data = EmptyMap
    /\ objectProps = EmptyMap
    /\ vaultFile = None
    /\ pending = {}
    /\ \E input \in NameInputs :
          last = Call("new", None, None, None, [input |-> input], "", EmptyMap)

ValidateName(name) ==
    /\ last' = Call("validateSecretName", None, None, None, [name |-> name], "",
                    [valid |-> validateSecretName(name)])
    /\ UnchangedButLast

ValidateWorkspace(workspaceId) ==
    /\ last' = Call("validateWorkspaceId", None, None, None, [workspaceId |-> workspaceId],
                    "", [valid |-> validateWorkspaceId(workspaceId)])
    /\ UnchangedButLast

NextNames ==
    \/ last.op = "new" /\ ValidateName(last.arg.input)
    \/ last.op = "new" /\ ValidateWorkspace(last.arg.input)

SpecNames == InitNames /\ [][NextNames]_vars

\* c is one of the 52 letters of ASCII
AsciiLetter(c) == \E i \in 1..26 : c = LowerSeq[i] \/ c = UpperSeq[i]
\* c is one of the ten digits of ASCII
AsciiDigit(c) == \E d \in 0..9 : c = DigitChars[d + 1]

(***************************************************************************)
(* C26: validateSecretName(name) returns TRUE exactly when name has        *)
(* between 1 and 255 characters, its first character is an ASCII letter    *)
(* and every other character is an ASCII letter, a digit, '_', '.' or '-'; *)
(* it returns FALSE for every other string and never throws.               *)
(***************************************************************************)
C26_SecretNameRule ==
    [][last'.op = "validateSecretName"
       => \A name \in {last'.arg.name} :
             /\ last'.err = ""
             /\ last'.res.valid \in BOOLEAN
             /\ last'.res.valid = TRUE
                <=> /\ Len(name) >= 1 /\ Len(name) <= 255
                    /\ AsciiLetter(name[1])
                    /\ \A i \in 2..Len(name) :
                          \/ AsciiLetter(name[i]) \/ AsciiDigit(name[i])
                          \/ name[i] = "_" \/ name[i] = "." \/ name[i] = "-"]_vars

\* a name of 255 characters is accepted
C26_Witness ==
    /\ last.op = "validateSecretName"
    /\ Len(last.arg.name) = 255
    /\ last.res.valid = TRUE

(***************************************************************************)
(* C27: validateWorkspaceId(id) returns TRUE exactly when id has between 1 *)
(* and 255 characters, its first character is an ASCII letter or digit and *)
(* every other character is an ASCII letter, a digit, '_', '.', '-' or     *)
(* '/'; it returns FALSE for every other string, for example one with a    *)
(* leading '/', and never throws.                                          *)
(***************************************************************************)
C27_WorkspaceIdRule ==
    [][last'.op = "validateWorkspaceId"
       => \A id \in {last'.arg.workspaceId} :
             /\ last'.err = ""
             /\ last'.res.valid \in BOOLEAN
             /\ last'.res.valid = TRUE
                <=> /\ Len(id) >= 1 /\ Len(id) <= 255
                    /\ AsciiLetter(id[1]) \/ AsciiDigit(id[1])
                    /\ \A i \in 2..Len(id) :
                          \/ AsciiLetter(id[i]) \/ AsciiDigit(id[i])
                          \/ id[i] = "_" \/ id[i] = "." \/ id[i] = "-" \/ id[i] = "/"]_vars

\* an id with a leading '/' is refused, though '/' is accepted further on
C27_Witness ==
    /\ last.op = "validateWorkspaceId"
    /\ last.arg.workspaceId = <<"/", "a", "/">>
    /\ last.res.valid = FALSE

(***************************************************************************)
(* SpecIdle: a backend is opened on a path that holds no vault, or a vault *)
(* file cut to length zero; a session reads, lists and asks for metadata,  *)
(* stores and deletes; the client is closed and a backend opened again.    *)
(***************************************************************************)
NextIdle ==
    \/ sessions = EmptyMap /\ Authenticate(WsDefault, "none", None, None)
    \/ \E sid \in DOMAIN sessions : ClientStore(sid, NameValue, <<115>>, None, None)
    \/ \E sid \in DOMAIN sessions : ClientDelete(sid, NameValue)
    \/ \E sid \in DOMAIN sessions, n \in Names : ClientRetrieve(sid, n, None)
    \/ \E sid \in DOMAIN sessions : ClientListSecrets(sid, None, None, None)
    \/ \E n \in Names : GetMetadata(WsDefault, n)
    \/ ClientClose
    \/ DamageFile("nothing")
    \/ \E newProcess \in BOOLEAN : Reopen(newProcess, VaultPassword)

SpecIdle == Init /\ [][NextIdle]_vars

\* the path holds no file or a file of length zero, and the vault in memory is
\* the empty one the backend was opened with
OpenedOnNoVault ==
    /\ backendType = "file"
    /\ vaultFile = None \/ vaultFile[1].held = "nothing"
    /\ data = EmptyMap /\ objectProps = EmptyMap

(***************************************************************************)
(* C28: opening a FileBackend on a path that does not exist, or that has   *)
(* length zero, initialises an empty vault in memory and writes no file:   *)
(* the file is first written by the first mutation, and no sequence of     *)
(* non-mutating calls (retrieve, listSecrets, getMetadata, close) creates  *)
(* or changes it.                                                          *)
(***************************************************************************)
C28_NoFileBeforeFirstMutation ==
    [][/\ (backendType = "file" /\ last'.op = "open"
           /\ (vaultFile = None \/ vaultFile[1].held = "nothing"))
          => /\ last'.err = ""
             /\ data' = EmptyMap
             /\ vaultFile' = vaultFile
       /\ (OpenedOnNoVault /\ last'.op \in {"retrieve", "listSecrets", "getMetadata", "close"})
          => vaultFile' = vaultFile
       /\ (OpenedOnNoVault /\ last'.op = "store" /\ last'.err = "")
          => vaultFile' # None /\ vaultFile'[1].held = "whole"]_vars

(***************************************************************************)
(* SpecCrash: the process stops inside _save.  A session stores, reads and *)
(* deletes; one store is cut short at a step of its _save, the process is  *)
(* gone, and a new process opens the vault.                                *)
(***************************************************************************)
\* the steps of _save after which, or within which, the process can stop: the
\* temp file written; the vault path opened for writing, which empties it;
\* part of the bytes written to it; all of them written; the mode changed; the
\* temp file emptied
SaveSteps == {"tempWritten", "truncated", "partlyWritten", "written", "chmodDone",
              "tempCleared"}

\* what the vault path holds when _save of the vault `workspaces` stops at step,
\* the path holding `file` before
SaveStoppedAt(file, workspaces, step) ==
    LET envelope == Encrypt(Key(VaultPassword), Stringify(workspaces))
    IN IF step = "tempWritten" THEN file
       ELSE IF step = "truncated" THEN Some(FileOf(envelope, "nothing"))
       ELSE IF step = "partlyWritten" THEN Some(FileOf(envelope, "partial"))
       ELSE Some(FileOf(envelope, "whole"))

\* store(sessionId, name, value) on the file backend up to a step of its _save
CrashInSave(sessionId, name, value, step) ==
    /\ backendType = "file"
    /\ \E v \in {validateSession(sessions, sessionId, now)} :
          /\ v.err = ""
          /\ StoreValidationError(name, value) = ""
          /\ \E r \in {BackendStore(Backend, v.session.workspace, name, value, None, None,
                                    now)} :
                /\ r.err = ""
                /\ r.res.version <= MaxVersion
                /\ data' = r.b.data
                /\ objectProps' = r.b.objectProps
                /\ vaultFile' = SaveStoppedAt(vaultFile, r.b.data, step)
                /\ last' = Call("crash", Some(sessionId), Some(v.session.workspace), name,
                                [value |-> value, step |-> step], "", EmptyMap)
    /\ UNCHANGED <<backendType, now, sessions, nextSid, secrets, pending>>

\* the process that held the vault is gone, or no process could open it
Stopped == last.op = "crash" \/ (last.op = "open" /\ last.err # "")

NextCrash ==
    \/ ~Stopped /\ sessions = EmptyMap /\ Authenticate(WsDefault, "none", None, None)
    \/ \E sid \in DOMAIN sessions, value \in Values :
          ~Stopped /\ ClientStore(sid, NameValue, value, None, None)
    \/ \E sid \in DOMAIN sessions :
          ~Stopped /\ ClientDelete(sid, NameValue)
    \/ \E sid \in DOMAIN sessions, n \in Names :
          ~Stopped /\ ClientRetrieve(sid, n, None)
    \/ \E sid \in DOMAIN sessions, value \in Values, step \in SaveSteps :
          ~Stopped /\ CrashInSave(sid, NameValue, value, step)
    \/ last.op = "crash" /\ Reopen(TRUE, VaultPassword)

SpecCrash == Init /\ [][NextCrash]_vars

(***************************************************************************)
(* C29: save writes the vault atomically: if the process stops at any step *)
(* of _save (after writing the temp file, during or after overwriting the  *)
(* real path, before or after chmod, before or after truncating the temp   *)
(* file), the real path holds either the complete previous envelope or the *)
(* complete new one, and reopening yields the previous or the new content, *)
(* never an error and never an empty vault.                                *)
(***************************************************************************)
C29_SaveIsAtomic ==
    [][/\ last'.op = "crash"
          => \A new \in {SaveStoppedAt(vaultFile, data', "written")} :
                /\ vaultFile' \in {vaultFile, new}
                /\ \A got \in {Load(vaultFile', VaultPassword)} :
                      /\ got.err = ""
                      /\ got.workspaces \in {Load(vaultFile, VaultPassword).workspaces,
                                             Load(new, VaultPassword).workspaces}
       /\ (last.op = "crash" /\ last'.op = "open")
          => /\ last'.err = ""
             /\ data' = Load(vaultFile, VaultPassword).workspaces]_vars

(***************************************************************************)
(* SpecOracle: a MemoryBackend and a FileBackend side by side.  Every call *)
(* is made on both with the same arguments at the same time of the clock;  *)
(* `secrets` is the state of the first, `data`, `objectProps` and          *)
(* `vaultFile` that of the second.                                         *)
(***************************************************************************)
MemSide == [Backend EXCEPT !.type = "memory"]
FileSide == [Backend EXCEPT !.type = "file"]

\* what a call threw or returned, the bare results of delete and rotate named
Shown(op, r) ==
    [err |-> r.err,
     res |-> IF r.err # "" THEN EmptyMap
             ELSE IF op = "delete" THEN [deleted |-> r.res]
             ELSE IF op = "rotate" THEN [version |-> r.res]
             ELSE r.res]

\* the call op was made on both backends: rm is what the memory backend did,
\* rf what the file backend did
Both(op, workspace, name, arg, rm, rf) ==
    /\ secrets' = rm.b.secrets
    /\ data' = rf.b.data
    /\ objectProps' = rf.b.objectProps
    /\ vaultFile' = rf.b.vaultFile
    /\ last' = Call(op, None, Some(workspace), name, arg, "",
                    [memory |-> Shown(op, rm), file |-> Shown(op, rf)])
    /\ UNCHANGED <<backendType, now, sessions, nextSid, pending>>

BothStore(workspace, name, value, labels, expiresAt) ==
    \E rm \in {BackendStore(MemSide, workspace, name, value, labels, expiresAt, now)},
       rf \in {BackendStore(FileSide, workspace, name, value, labels, expiresAt, now)} :
       /\ rm.res.version <= MaxVersion
       /\ Both("store", workspace, name,
               [value |-> value, labels |-> labels, expiresAt |-> expiresAt], rm, rf)

BothRetrieve(workspace, name, version) ==
    \E rm \in {BackendRetrieve(MemSide, workspace, name, version, now)},
       rf \in {BackendRetrieve(FileSide, workspace, name, version, now)} :
       Both("retrieve", workspace, name, [version |-> version], rm, rf)

BothDelete(workspace, name) ==
    \E rm \in {BackendDelete(MemSide, workspace, name)},
       rf \in {BackendDelete(FileSide, workspace, name)} :
       Both("delete", workspace, name, EmptyMap, rm, rf)

BothListSecrets(workspace, filterLabels, cursor, limit) ==
    \E rm \in {BackendListSecrets(MemSide, workspace, filterLabels, cursor, limit, now)},
       rf \in {BackendListSecrets(FileSide, workspace, filterLabels, cursor, limit, now)} :
       Both("listSecrets", workspace, None,
            [filterLabels |-> filterLabels, cursor |-> cursor, limit |-> limit], rm, rf)

BothGetMetadata(workspace, name) ==
    \E rm \in {BackendGetMetadata(MemSide, workspace, name, now)},
       rf \in {BackendGetMetadata(FileSide, workspace, name, now)} :
       Both("getMetadata", workspace, name, EmptyMap, rm, rf)

BothRotate(workspace, name, newValue) ==
    \E rm \in {BackendRotate(MemSide, workspace, name, newValue, now)},
       rf \in {BackendRotate(FileSide, workspace, name, newValue, now)} :
       /\ rm.err = "" => rm.res <= MaxVersion
       /\ Both("rotate", workspace, name, [value |-> newValue], rm, rf)

\* a store without labels and expiry, or with a label and an expiry one tick
\* after the start of the clock
OracleStores == {[labels |-> None, expiresAt |-> None],
                 [labels |-> Some([env |-> "prod"]), expiresAt |-> Some(TickMs)]}
OracleFilters == {None, Some([env |-> "prod"])}

NextOracle ==
    \/ Tick
    \/ \E n \in Names, o \in OracleStores :
          BothStore(WsDefault, n, <<115>>, o.labels, o.expiresAt)
    \/ \E n \in Names : BothRetrieve(WsDefault, n, None)
    \/ \E n \in Names : BothDelete(WsDefault, n)
    \/ \E filter \in OracleFilters : BothListSecrets(WsDefault, filter, None, DEFAULT_LIMIT)
    \/ \E n \in Names : BothGetMetadata(WsDefault, n)
    \/ \E n \in Names : BothRotate(WsDefault, n, <<0, 255>>)

SpecOracle == Init /\ [][NextOracle]_vars

\* a SecretMetadata without its backend tag
Untagged(metadata) == [metadata EXCEPT !.backend = ""]

\* what a call returned, without the backend tags
UntaggedResult(op, res) ==
    IF op = "getMetadata" THEN Untagged(res)
    ELSE IF op = "listSecrets" THEN
        [res EXCEPT !.secrets =
            [i \in 1..Len(res.secrets) |->
                [res.secrets[i] EXCEPT !.metadata = Untagged(res.secrets[i].metadata)]]]
    ELSE res

(***************************************************************************)
(* C30: the memory store is the oracle of the file store: for every        *)
(* sequence of store, retrieve, delete, listSecrets, getMetadata and       *)
(* rotate calls with the same arguments and clock, the FileBackend returns *)
(* the same outcomes as the MemoryBackend (created flags, versions,        *)
(* values, listed names and their order, cursors, labels, timestamps,      *)
(* error kinds), apart from the backend type tag.                          *)
(***************************************************************************)
C30_MemoryIsOracle ==
    [][last'.op \in {"store", "retrieve", "delete", "listSecrets", "getMetadata", "rotate"}
       => /\ last'.res.file.err = last'.res.memory.err
          /\ last'.res.memory.err = ""
             => UntaggedResult(last'.op, last'.res.file.res)
                  = UntaggedResult(last'.op, last'.res.memory.res)]_vars

(***************************************************************************)
(* SpecStores: concurrent store calls of one session.  client.store checks *)
(* the session, the name and the size and calls backend.store, whose body  *)
(* has no await: it reads the entry, writes it and saves in one run.  The  *)
(* call is then suspended at `await this._backend.store(...)` with the     *)
(* result in hand and returns when it resumes; other calls run meanwhile.  *)
(***************************************************************************)
\* store up to its await: the backend has stored, the response is to come
ClientStoreBegin(sessionId, name, value) ==
    \E v \in {validateSession(sessions, sessionId, now)},
       arg \in {[value |-> value, labels |-> None, expiresAt |-> None]} :
       /\ v.err = ""
       /\ StoreValidationError(name, value) = ""
       /\ \E r \in {BackendStore(Backend, v.session.workspace, name, value, None, None, now)},
             n \in {CHOOSE i \in 1..(Cardinality(pending) + 1) :
                            \A other \in pending : other.call # i} :
             /\ r.err = ""
             /\ r.res.version <= MaxVersion
             /\ SetBackend(r.b)
             /\ pending' = pending \cup {[call |-> n, sid |-> sessionId,
                                          workspace |-> v.session.workspace, name |-> name,
                                          value |-> value, result |-> r.res]}
             /\ last' = Call("storeAwait", Some(sessionId), Some(v.session.workspace), name,
                             arg, "", r.res)
             /\ UNCHANGED <<now, sessions, nextSid>>

\* a suspended store resumes and returns its response
ClientStoreResume(call) ==
    /\ call \in pending
    /\ pending' = pending \ {call}
    /\ last' = Call("store", Some(call.sid), Some(call.workspace), call.name,
                    [value |-> call.value, labels |-> None, expiresAt |-> None], "",
                    [name |-> call.name, backend |-> backendId(backendType),
                     created |-> call.result.created, version |-> call.result.version])
    /\ UnchangedBackend
    /\ UNCHANGED <<now, sessions, nextSid>>

NextStores ==
    \/ Tick
    \/ nextSid = 1 /\ Authenticate(WsDefault, "none", None, None)
    \/ \E sid \in Minted, v \in Values : ClientStoreBegin(sid, NameValue, v)
    \/ \E call \in pending : ClientStoreResume(call)
    \/ \E sid \in Minted : ClientRetrieve(sid, NameValue, None)

SpecStores == Init /\ [][NextStores]_vars

NextRace ==
    \/ Tick
    \/ nextSid = 1 /\ Authenticate(WsDefault, "none", None, None)
    \/ \E sid \in Minted, v \in Values : ClientStore(sid, NameValue, v, None, None)
    \/ \E sid \in Minted : ClientRetrieve(sid, NameValue, None)
    \/ \E sid \in Minted, v \in Values : ClientRotateBegin(sid, NameValue, v)
    \/ \E call \in pending : ClientRotateResume(call)
    \/ \E sid \in Minted : Authenticate(WsDefault, "terminate", Some(sid), None)

SpecRace == Init /\ [][NextRace]_vars

\* the step resumes a suspended rotate
RotateResumes == last'.op = "rotate" /\ pending' # pending

(***************************************************************************)
(* C32: the session check and the backend mutation of one client operation *)
(* are not atomic: when an operation has validated session s, a concurrent *)
(* TERMINATE of s has completed and the operation's backend write (the     *)
(* store step of rotate) runs afterwards, the write takes effect on behalf *)
(* of the terminated session: it is not refused with a session error, the  *)
(* secret gets the new value and the next version, and the session stays   *)
(* removed.                                                                *)
(***************************************************************************)
C32_WriteAfterTerminate ==
    [][(RotateResumes /\ last'.sid[1] \notin DOMAIN sessions)
       => /\ last'.err = ""
          /\ HasSecret(Backend', WsDefault, last'.name)
          /\ StoredSecret(Backend', WsDefault, last'.name).value = last'.arg.value
          /\ StoredSecret(Backend', WsDefault, last'.name).version = last'.res.version
          /\ HasSecret(Backend, WsDefault, last'.name)
             => last'.res.version = StoredSecret(Backend, WsDefault, last'.name).version + 1
          /\ sessions' = sessions]_vars

\* a rotate has returned version 2 with its new value stored though its session
\* was terminated while it was suspended: the session table is empty
C32_Witness ==
    /\ last.op = "rotate" /\ last.err = ""
    /\ last.res.version = 2
    /\ last.sid[1] \notin DOMAIN sessions
    /\ sessions = EmptyMap /\ nextSid > 1
    /\ StoredSecret(Backend, WsDefault, NameValue).value = last.arg.value
    /\ StoredSecret(Backend, WsDefault, NameValue).version = 2

\* the step is a TERMINATE that returned its echo
TerminateReturns ==
    /\ last'.op = "authenticate" /\ last'.err = ""
    /\ last'.arg.authMethod = "terminate"

(***************************************************************************)
(* C33: a successful TERMINATE returns a session echo with the terminated  *)
(* session id, ttlSeconds = 0 and an expiresAt such that the echo is       *)
(* already expired at the moment it is returned: isSessionExpired(echo)    *)
(* holds (now > expiresAt).                                                *)
(***************************************************************************)
C33_TerminateEchoExpired ==
    [][TerminateReturns
       => /\ last'.res.sessionId = last'.sid[1]
          /\ last'.res.ttlSeconds = 0
          /\ isSessionExpired(last'.res, now')]_vars

(***************************************************************************)
(* SpecTable: several sessions on one workspace.  Sessions are minted with *)
(* the default ttl or a ttl of one second, used, terminated and evicted on *)
(* expiry while the clock moves.                                           *)
(***************************************************************************)
NextTable ==
    \/ Tick
    \/ \E ttl \in TtlChoices : Authenticate(WsDefault, "none", None, ttl)
    \/ \E sid \in Presented : Authenticate(WsDefault, "terminate", Some(sid), None)
    \/ \E sid \in Presented : ClientStore(sid, NameValue, <<115>>, None, None)
    \/ \E sid \in Presented : ClientRetrieve(sid, NameValue, None)

SpecTable == Init /\ [][NextTable]_vars

\* the step is an authenticate that minted a session
MintReturns ==
    /\ last'.op = "authenticate" /\ last'.err = ""
    /\ last'.arg.authMethod # "terminate"

(***************************************************************************)
(* C34: sessions are independent and immutable: a non-TERMINATE            *)
(* authenticate adds exactly one entry to the session table and changes no *)
(* existing entry; no operation changes the workspace, expiresAt or        *)
(* ttlSeconds of a stored session; terminating or expiry-evicting one      *)
(* session leaves every other session, including other sessions on the     *)
(* same workspace, in the table and usable.                                *)
(***************************************************************************)
C34_SessionsIndependent ==
    [][/\ MintReturns
          => /\ Cardinality(DOMAIN sessions' \ DOMAIN sessions) = 1
             /\ DOMAIN sessions \subseteq DOMAIN sessions'
             /\ sessions'[last'.res.sessionId] = last'.res
       /\ \A s \in DOMAIN sessions \cap DOMAIN sessions' :
             /\ sessions'[s].workspace = sessions[s].workspace
             /\ sessions'[s].expiresAt = sessions[s].expiresAt
             /\ sessions'[s].ttlSeconds = sessions[s].ttlSeconds
             /\ sessions'[s] = sessions[s]
       /\ \A s \in DOMAIN sessions \ DOMAIN sessions' :
             /\ last'.sid = Some(s)
             /\ \/ TerminateReturns
                \/ last'.op \in SessionOps /\ last'.err = "SessionExpired"
             /\ \A other \in DOMAIN sessions \ {s} :
                   /\ other \in DOMAIN sessions'
                   /\ validateSession(sessions', other, now').err
                        = validateSession(sessions, other, now).err]_vars

\* one of two sessions on the workspace has just been terminated; the other is
\* in the table and passes the session check
C34_Witness ==
    /\ last.op = "authenticate" /\ last.err = "" /\ last.arg.authMethod = "terminate"
    /\ nextSid = 3
    /\ Cardinality(DOMAIN sessions) = 1
    /\ \A other \in DOMAIN sessions :
          /\ other # last.sid[1]
          /\ sessions[other].workspace = last.res.workspace
          /\ validateSession(sessions, other, now).err = ""

(***************************************************************************)
(* SpecRead: one session stores secrets with and without expiry, rotates   *)
(* and deletes them, and reads them back with retrieve (any version),      *)
(* getMetadata and listSecrets while the clock moves.                      *)
(***************************************************************************)
NextRead ==
    \/ NextVer
    \/ \E sid \in Minted : ClientListSecrets(sid, None, None, None)
    \/ \E n \in Names : GetMetadata(WsDefault, n)

SpecRead == Init /\ [][NextRead]_vars

\* the step is a read of the backend: retrieve, getMetadata or listSecrets
ReadCall ==
    BackendCall("retrieve") \/ BackendCall("getMetadata") \/ BackendCall("listSecrets")

\* every entry of the workspace other than name is held after the step exactly
\* as before it
OthersUntouched(workspace, name) ==
    \A n \in Names \ {name} :
        /\ HasSecret(Backend', workspace, n) = HasSecret(Backend, workspace, n)
        /\ HasSecret(Backend, workspace, n)
              => StoredSecret(Backend', workspace, n) = StoredSecret(Backend, workspace, n)

(***************************************************************************)
(* C35: read operations change the backend only by expiry eviction: a      *)
(* retrieve or getMetadata of a name that is absent or unexpired, whether  *)
(* it succeeds or fails, and every listSecrets call leave every secret's   *)
(* value, version and metadata unchanged; the only state change retrieve   *)
(* or getMetadata can make is removing the one expired entry it was asked  *)
(* for.                                                                    *)
(***************************************************************************)
C35_ReadsOnlyEvict ==
    [][ReadCall
       => IF /\ last'.op # "listSecrets"
             /\ HasSecret(Backend, last'.workspace[1], last'.name)
             /\ PastExpiry(Backend, last'.workspace[1], last'.name, now)
          THEN /\ ~HasSecret(Backend', last'.workspace[1], last'.name)
               /\ last'.err = "SecretNotFound"
               /\ OthersUntouched(last'.workspace[1], last'.name)
          ELSE /\ Backend' = Backend
               /\ OthersUntouched(last'.workspace[1], <<>>)]_vars

\* a retrieve that asked for a version the entry does not have has failed and
\* the entry is still held with its version, next to an expired entry that a
\* listing would skip
C35_Witness ==
    /\ last.op = "retrieve" /\ last.err = "SecretNotFound"
    /\ last.arg.version # None
    /\ HasSecret(Backend, WsDefault, last.name)
    /\ ~PastExpiry(Backend, WsDefault, last.name, now)
    /\ StoredSecret(Backend, WsDefault, last.name).version # last.arg.version[1]
    /\ \E n \in Names \ {last.name} :
          HasSecret(Backend, WsDefault, n) /\ PastExpiry(Backend, WsDefault, n, now)

(***************************************************************************)
(* SpecRelabel: one session stores a secret with labels and with or        *)
(* without expiry, rotates it, lists with and without a label filter and   *)
(* retrieves it while the clock moves.                                     *)
(***************************************************************************)
RelabelFilters == {None, Some([env |-> "prod"])}

NextRelabel ==
    \/ Tick
    \/ nextSid = 1 /\ Authenticate(WsDefault, "none", None, None)
    \/ \E sid \in Minted, labels \in LabelChoices, e \in ExpiryChoices :
          ClientStore(sid, NameValue, <<115>>, labels, e)
    \/ \E sid \in Minted : ClientRotate(sid, NameValue, <<0, 255>>)
    \/ \E sid \in Minted, filter \in RelabelFilters :
          ClientListSecrets(sid, filter, None, None)
    \/ \E sid \in Minted : ClientRetrieve(sid, NameValue, None)

SpecRelabel == Init /\ [][NextRelabel]_vars

\* the times from t to the end of the clock
LaterTimes(t) == {t + k * TickMs : k \in 0..(MaxTicks + 1)}

\* the label filters that ask for at least one label
NonEmptyFilters == {f \in FilterChoices : f # None /\ DOMAIN f[1] # {}}

(***************************************************************************)
(* C36: rotate re-stores the secret with no labels and no expiresAt: after *)
(* a successful rotate the secret has an empty label map and no expiry,    *)
(* whatever it had before, so it no longer matches any non-empty label     *)
(* filter in listSecrets and never expires.                                *)
(***************************************************************************)
C36_RotateDropsLabelsAndExpiry ==
    [][(BackendCall("rotate") /\ last'.err = "")
       => LET w == last'.workspace[1]
              n == last'.name
          IN /\ HasSecret(Backend', w, n)
             /\ StoredSecret(Backend', w, n).labels = EmptyMap
             /\ StoredSecret(Backend', w, n).expiresAt = None
             /\ \A f \in NonEmptyFilters, t \in LaterTimes(now') :
                   \A r \in {BackendListSecrets(Backend', w, f, None, DEFAULT_LIMIT, t)} :
                       n \notin ListedNames(r.res.secrets)
             /\ \A t \in LaterTimes(now') :
                   /\ ~PastExpiry(Backend', w, n, t)
                   /\ BackendRetrieve(Backend', w, n, None, t).err = ""]_vars

\* a rotate has just succeeded: the entry is at version 2 with an empty label
\* map and no expiry, at the time an expiry of the first store would be due
C36_Witness ==
    /\ last.op = "rotate" /\ last.err = ""
    /\ HasSecret(Backend, WsDefault, NameValue)
    /\ StoredSecret(Backend, WsDefault, NameValue).labels = EmptyMap
    /\ StoredSecret(Backend, WsDefault, NameValue).expiresAt = None
    /\ StoredSecret(Backend, WsDefault, NameValue).version = 2
    /\ now = TickMs

(***************************************************************************)
(* SpecSaveFail: the file store when _save throws.  Everything inside      *)
(* _save runs in one try block whose catch rethrows EncryptionError: the   *)
(* throw can come before the vault path is written (mkdirSync, the         *)
(* encryption, the write of the temp file, the open of the path), from the *)
(* write of the path after it was emptied, or from chmodSync after the     *)
(* path was written in full.  The process lives on with its in-memory      *)
(* vault.                                                                  *)
(***************************************************************************)
SaveThrowsAt == {"tempWritten", "truncated", "partlyWritten", "written"}

\* store(sessionId, name, value) on the file backend whose _save throws after
\* step
StoreSaveFails(sessionId, name, value, step) ==
    /\ backendType = "file"
    /\ \E v \in {validateSession(sessions, sessionId, now)} :
          /\ v.err = ""
          /\ StoreValidationError(name, value) = ""
          /\ \E r \in {BackendStore(Backend, v.session.workspace, name, value, None, None,
                                    now)} :
                /\ r.err = ""
                /\ r.res.version <= MaxVersion
                /\ data' = r.b.data
                /\ objectProps' = r.b.objectProps
                /\ vaultFile' = SaveStoppedAt(vaultFile, r.b.data, step)
                /\ last' = Call("store", Some(sessionId), Some(v.session.workspace), name,
                                [value |-> value, version |-> r.res.version, step |-> step],
                                "EncryptionError", EmptyMap)
    /\ UNCHANGED <<backendType, now, sessions, nextSid, secrets, pending>>

\* delete(sessionId, name) of a held secret on the file backend whose _save
\* throws after step
DeleteSaveFails(sessionId, name, step) ==
    /\ backendType = "file"
    /\ \E v \in {validateSession(sessions, sessionId, now)} :
          /\ v.err = ""
          /\ \E r \in {BackendDelete(Backend, v.session.workspace, name)} :
                /\ r.err = ""
                /\ r.res = TRUE
                /\ data' = r.b.data
                /\ objectProps' = r.b.objectProps
                /\ vaultFile' = SaveStoppedAt(vaultFile, r.b.data, step)
                /\ last' = Call("delete", Some(sessionId), Some(v.session.workspace), name,
                                [step |-> step], "EncryptionError", EmptyMap)
    /\ UNCHANGED <<backendType, now, sessions, nextSid, secrets, pending>>

NextSaveFail ==
    \/ nextSid = 1 /\ Authenticate(WsDefault, "none", None, None)
    \/ \E sid \in Minted, value \in Values : ClientStore(sid, NameValue, value, None, None)
    \/ \E sid \in Minted : ClientDelete(sid, NameValue)
    \/ \E sid \in Minted : ClientRetrieve(sid, NameValue, None)
    \/ \E sid \in Minted, value \in Values, step \in SaveThrowsAt :
          StoreSaveFails(sid, NameValue, value, step)
    \/ \E sid \in Minted, step \in SaveThrowsAt : DeleteSaveFails(sid, NameValue, step)

SpecSaveFail == Init /\ [][NextSaveFail]_vars

\* the step is a store or delete that reached the backend and failed in _save
SaveFailed ==
    /\ last'.op \in {"store", "delete"}
    /\ last'.err = "EncryptionError"
    /\ last'.workspace # None

\* a retrieve on the same instance right after the step shows the failed call:
\* the new value and version after a store, absence after a delete
RetrieveShowsFailedCall ==
    \A r \in {BackendRetrieve(Backend', last'.workspace[1], last'.name, None, now')} :
        IF last'.op = "store"
        THEN /\ r.err = ""
             /\ r.res.value = last'.arg.value
             /\ r.res.version = last'.arg.version
        ELSE r.err = "SecretNotFound"

(***************************************************************************)
(* C37: in the file store a mutating call changes the in-memory vault      *)
(* before it saves: when the save step of store or delete fails with       *)
(* EncryptionError, the in-memory change is kept, so a later retrieve on   *)
(* the same instance reflects the failed call (new value and version, or   *)
(* absence) while the vault file still holds the previous content.         *)
(***************************************************************************)
C37_FailedSaveKeepsMemoryNotFile ==
    [][SaveFailed => (RetrieveShowsFailedCall /\ vaultFile' = vaultFile)]_vars

(***************************************************************************)
(* SpecStale: every store carries the expiry TickMs, so every entry held   *)
(* after that time is expired until a retrieve or getMetadata evicts it or *)
(* a store replaces it.                                                    *)
(***************************************************************************)
NextStale ==
    \/ Tick
    \/ nextSid = 1 /\ Authenticate(WsDefault, "none", None, None)
    \/ \E sid \in Minted, value \in Values :
          ClientStore(sid, NameValue, value, None, Some(TickMs))
    \/ \E sid \in Minted : ClientRetrieve(sid, NameValue, None)
    \/ \E sid \in Minted : ClientListSecrets(sid, None, None, None)
    \/ GetMetadata(WsDefault, NameValue)

SpecStale == Init /\ [][NextStale]_vars

\* the step is a store that reached the backend and found an entry past its
\* expiresAt under its name
StoreOnExpired ==
    /\ BackendCall("store") /\ last'.err = ""
    /\ HasSecret(Backend, last'.workspace[1], last'.name)
    /\ PastExpiry(Backend, last'.workspace[1], last'.name, now)

(***************************************************************************)
(* C38: store does not look at expiry: a store on a name whose entry is    *)
(* past its expiresAt but not yet evicted returns created=false and the    *)
(* expired entry's version plus 1 and keeps its createdAt, whereas the     *)
(* same store issued after an evicting retrieve returns created=true and   *)
(* version 1.                                                              *)
(***************************************************************************)
C38_StoreIgnoresExpiry ==
    [][StoreOnExpired
       => LET w == last'.workspace[1]
              n == last'.name
          IN /\ last'.res.created = FALSE
             /\ last'.res.version = StoredSecret(Backend, w, n).version + 1
             /\ StoredSecret(Backend', w, n).version = last'.res.version
             /\ StoredSecret(Backend', w, n).createdAt = StoredSecret(Backend, w, n).createdAt
             /\ \A e \in {BackendRetrieve(Backend, w, n, None, now)} :
                   /\ e.err = "SecretNotFound"
                   /\ ~HasSecret(e.b, w, n)
                   /\ \A r \in {BackendStore(e.b, w, n, last'.arg.value, last'.arg.labels,
                                             last'.arg.expiresAt, now)} :
                         /\ r.err = ""
                         /\ r.res.created = TRUE
                         /\ r.res.version = 1
                         /\ StoredSecret(r.b, w, n).createdAt = now]_vars

\* a store made after the expiry of every entry has returned created=false and
\* version 2, and the entry keeps the createdAt of the first store
C38_Witness ==
    /\ last.op = "store" /\ last.err = ""
    /\ now > TickMs
    /\ last.res.created = FALSE
    /\ last.res.version = 2
    /\ HasSecret(Backend, WsDefault, NameValue)
    /\ StoredSecret(Backend, WsDefault, NameValue).updatedAt = now
    /\ StoredSecret(Backend, WsDefault, NameValue).createdAt < TickMs

(***************************************************************************)
(* SpecTraverse: a caller walks the list of its workspace page by page,    *)
(* handing each returned cursor to the next listSecrets call, while        *)
(* secrets are deleted between its page requests.  The caller's traversal  *)
(* is held in pending: its limit, the cursor it was handed last (none when *)
(* the traversal is finished), the names returned so far and the names     *)
(* held when it began.  No secret is stored during a traversal, so the     *)
(* secrets that exist during the whole traversal are those held at its     *)
(* start and at its end.                                                   *)
(***************************************************************************)
\* the names held in the workspace, expired or not
HeldNames(b, workspace) == {n \in PageNames : HasSecret(b, workspace, n)}

\* a traversal is under way: a page left a cursor that was not yet followed
Traversing == \E t \in pending : t.cursor # None

\* one page request of a traversal: listSecrets with the cursor given
TraversePage(sessionId, given, limit, seen, atStart) ==
    \E v \in {validateSession(sessions, sessionId, now)} :
       /\ v.err = ""
       /\ \E r \in {BackendListSecrets(Backend, v.session.workspace, None, given, limit, now)} :
             /\ r.err = ""
             /\ SetBackend(r.b)
             /\ pending' = {[call |-> "traversal", sid |-> sessionId, limit |-> limit,
                             cursor |-> r.res.cursor,
                             seen |-> seen \cup ListedNames(r.res.secrets),
                             atStart |-> atStart]}
             /\ last' = Call("listSecrets", Some(sessionId), Some(v.session.workspace), None,
                             [filterLabels |-> None, cursor |-> given, limit |-> Some(limit)],
                             "",
                             [secrets |-> r.res.secrets, cursor |-> r.res.cursor,
                              hasMore |-> r.res.cursor # None])
             /\ UNCHANGED <<now, sessions, nextSid>>

\* the first page: no cursor
TraverseBegin(sessionId, limit) ==
    /\ ~Traversing
    /\ TraversePage(sessionId, None, limit, {}, HeldNames(Backend, WsDefault))

\* the next page: the cursor handed out by the page before
TraverseNext ==
    \E t \in pending :
        /\ t.cursor # None
        /\ TraversePage(t.sid, t.cursor, t.limit, t.seen, t.atStart)

NextTraverse ==
    \/ nextSid = 1 /\ Authenticate(WsDefault, "none", None, None)
    \/ \E sid \in Minted, n \in PageNames :
          ~Traversing /\ ClientStore(sid, n, <<115>>, None, None)
    \/ \E sid \in Minted, n \in PageNames : ClientDelete(sid, n)
    \/ \E sid \in Minted, k \in 1..MaxLimit : TraverseBegin(sid, k)
    \/ TraverseNext

SpecTraverse == Init /\ [][NextTraverse]_vars

\* the step is a page request of a traversal that was handed a cursor
TraversalContinues == Traversing /\ last'.op = "listSecrets"

\* the names held from the start of traversal t to now that it has not returned
Omitted(t, b) == (t.atStart \cap HeldNames(b, WsDefault)) \ t.seen

(***************************************************************************)
(* C39: the list cursor is an offset into the freshly recomputed sorted    *)
(* list, so a cursor traversal is not snapshot-consistent: when an already *)
(* returned secret is deleted between two page requests, the traversal can *)
(* omit a secret that existed during the whole traversal.  Every page is   *)
(* the slice of the list as it is at the request, from the cursor on; the  *)
(* held names that lie before that offset and were never returned are not  *)
(* returned by the page; and a finished traversal has omitted a secret     *)
(* that existed throughout only if a secret it had returned was deleted.   *)
(***************************************************************************)
C39_CursorIsOffsetIntoCurrentList ==
    [][TraversalContinues
       => \A t \in pending, u \in pending' :
             LET sorted == SortNames(HeldNames(Backend, WsDefault))
                 start == parseInt(t.cursor[1])[1]
                 skipped == {sorted[i] : i \in 1..Min(start, Len(sorted))} \ t.seen
             IN /\ last'.arg.cursor = t.cursor
                /\ Len(last'.res.secrets) = Len(SubSeq(sorted, start + 1,
                                                       Min(start + t.limit, Len(sorted))))
                /\ \A i \in 1..Len(last'.res.secrets) :
                      last'.res.secrets[i].name = sorted[start + i]
                /\ skipped \cap u.seen = {}
                /\ u.cursor = None
                      => /\ skipped \subseteq Omitted(u, Backend')
                         /\ Omitted(u, Backend') # {}
                               => u.seen \ HeldNames(Backend', WsDefault) # {}]_vars

\* a traversal has just finished; a secret it had returned is gone, and a secret
\* held since before its first page was on none of its pages
C39_Witness ==
    /\ last.op = "listSecrets" /\ last.err = ""
    /\ last.arg.cursor # None /\ last.res.cursor = None
    /\ \E t \in pending :
          /\ t.cursor = None
          /\ t.seen \ HeldNames(Backend, WsDefault) # {}
          /\ Omitted(t, Backend) # {}

(***************************************************************************)
(* SpecZero: listSecrets asked for pages of limit 0 (and of limit 1, for   *)
(* contrast), with no cursor, with the decimal cursors 0..MaxLimit and     *)
(* with the cursor the page before handed out.                             *)
(***************************************************************************)
ZeroCursors == {None} \cup {Some(String(k)) : k \in 0..MaxLimit}

NextZero ==
    \/ nextSid = 1 /\ Authenticate(WsDefault, "none", None, None)
    \/ \E sid \in Minted, n \in {NameA, NameB} :
          ClientStore(sid, n, <<115>>, Some([env |-> "prod"]), None)
    \/ \E sid \in Minted : ClientStore(sid, NameC, <<115>>, None, None)
    \/ \E sid \in Minted, n \in PageNames : ClientDelete(sid, n)
    \/ \E sid \in Minted, filter \in PageFilters, c \in ZeroCursors, k \in {0, 1} :
          ClientListSecrets(sid, filter, c, Some(k))
    \/ \E sid \in Minted :
          /\ PageLeftCursor
          /\ ClientListSecrets(sid, last.arg.filterLabels, last.res.cursor, last.arg.limit)

SpecZero == Init /\ [][NextZero]_vars

\* the secrets of the workspace that match the filter (none of them expires)
Matching(b, workspace, filterLabels) ==
    {n \in PageNames : /\ HasSecret(b, workspace, n)
                       /\ LabelsMatch(StoredSecret(b, workspace, n).labels, filterLabels)}

\* the step is a listSecrets with limit 0 on a workspace with a matching secret
ZeroLimitList ==
    /\ BackendCall("listSecrets") /\ last'.err = ""
    /\ last'.arg.limit = Some(0)
    /\ Matching(Backend, last'.workspace[1], last'.arg.filterLabels) # {}

(***************************************************************************)
(* C40: listSecrets with limit 0 on a workspace with at least one matching *)
(* secret returns, for every cursor below the number of matching secrets,  *)
(* an empty page with a defined cursor equal to the cursor it was given    *)
(* (hasMore=true), so following cursors never reaches a page without       *)
(* cursor: the page requested with the returned cursor is the same page.   *)
(* Without a cursor the page is empty and its cursor is "0".               *)
(***************************************************************************)
C40_ZeroLimitNeverEnds ==
    [][ZeroLimitList
       => LET w == last'.workspace[1]
              f == last'.arg.filterLabels
              c == last'.arg.cursor
              below == c = None \/ parseInt(c[1])[1] < Cardinality(Matching(Backend, w, f))
          IN /\ last'.res.secrets = <<>>
             /\ below
                   => /\ last'.res.hasMore = TRUE
                      /\ last'.res.cursor = IF c = None THEN Some(String(0)) ELSE c
                      /\ \A r \in {BackendListSecrets(Backend', w, f, last'.res.cursor,
                                                      LimitOrDefault(last'.arg.limit), now')} :
                            /\ r.res.secrets = <<>>
                            /\ r.res.cursor = last'.res.cursor
             /\ ~below => last'.res.cursor = None]_vars

\* a page of limit 0 was requested with the cursor "1" over two matching
\* secrets: it is empty and hands out the cursor "1" again
C40_Witness ==
    /\ last.op = "listSecrets" /\ last.err = ""
    /\ last.arg.limit = Some(0)
    /\ last.arg.cursor = Some(String(1))
    /\ last.res.cursor = Some(String(1))
    /\ last.res.hasMore = TRUE
    /\ last.res.secrets = <<>>
    /\ Cardinality(Matching(Backend, WsDefault, last.arg.filterLabels)) = 2

=============================================================================
